---- MODULE Spec2Model ----
(***************************************************************************)
(* Static uniform-arity k2-tree (BasicK2Tree<E>, src/StaticBasicTree.hpp). *)
(*                                                                         *)
(* The state is one instance: the bit sequence T_, the leaf sequence L_,   *)
(* the scalars h_, k_, nPrime_, null_, plus the input relation `mat` it    *)
(* was built from and the number `calls` of setNull calls made on it.      *)
(* `copy` is a second instance, made from the first by the copy            *)
(* constructor (clone), or NoInstance while there is none.  `readers` holds *)
(* the activation record of each thread that runs a query on the instance. *)
(* `build` holds the locals of a constructor that is still running (the    *)
(* triple-list builder or the dynamic-bitmap builder), taken one loop      *)
(* iteration at a time; NoBuild once the instance is constructed.          *)
(* C++ containers are 0-indexed; the sequences here are 1-indexed, so C++  *)
(* T_[z] is T[z + 1].                                                      *)
(***************************************************************************)
EXTENDS Integers, Sequences, FiniteSets, TLC

VARIABLES mat, k_, null_, h_, nPrime_, T_, L_, calls, copy, readers, build

vars == <<mat, k_, null_, h_, nPrime_, T_, L_, calls, copy, readers, build>>

(***************************************************************************)
(* Bounds of the model.                                                    *)
(***************************************************************************)
\* largest number of rows / columns of an input matrix
MaxSide == 3
\* largest number of non-null cells of an input relation
MaxCells == 2
\* largest number of setNull calls made on one instance
MaxCalls == 1
\* side of the square matrices that give a tree of height 3 under arity 2
DeepSide == 5
\* how far beyond n' the out-of-range coordinates of a call reach
Beyond == 2

\* number of threads that run queries on one instance
MaxReaders == 2
\* largest number of triples of an input triple list
MaxTriples == 3

\* arities the instances are built with
Ks == {2, 3}
\* element domain E and the null values tried
Vals == {0, 1, 2}
Nulls == {0, 1}

(***************************************************************************)
(* Generic helpers.                                                        *)
(***************************************************************************)
Max(a, b) == IF a >= b THEN a ELSE b

\* pow(k, h) of <cmath>, on the small naturals used here
RECURSIVE Pow(_, _)
Pow(k, h) == IF h = 0 THEN 1 ELSE k * Pow(k, h - 1)

\* logK(n, k) of Utility.hpp: the smallest e with k^e >= n
RECURSIVE LogKFrom(_, _, _)
LogKFrom(n, k, e) == IF Pow(k, e) >= n THEN e ELSE LogKFrom(n, k, e + 1)

logK(n, k) == LogKFrom(n, k, 0)

\* isAll(C, null) of Utility.hpp
isAll(C, v) == \A x \in 1 .. Len(C) : C[x] = v

\* isAllZero(C) of Utility.hpp
isAllZero(C) == \A x \in 1 .. Len(C) : C[x] = 0

\* C++ conversion of an element to bool
Truthy(v) == v # 0

\* rank_type::rank(i): number of 1-bits among positions [0, i) of T
RECURSIVE rank(_, _)
rank(T, i) == IF i = 0 THEN 0 ELSE rank(T, i - 1) + T[i]

\* the sequence of n copies of x (std::vector<X>(n, x))
RECURSIVE Rep(_, _)
Rep(n, x) == IF n <= 0 THEN <<>> ELSE Append(Rep(n - 1, x), x)

\* the function f on 1 .. n as a sequence
RECURSIVE AsSeq(_, _)
AsSeq(f, n) == IF n <= 0 THEN <<>> ELSE Append(AsSeq(f, n - 1), f[n])

\* e, once x has been computed: the statement that yields x runs before the
\* statements that yield e
After(x, e) == IF x = x THEN e ELSE e

\* concatenation of a sequence of sequences
RECURSIVE Flatten(_)
Flatten(ss) == IF Len(ss) = 0 THEN <<>> ELSE Head(ss) \o Flatten(Tail(ss))

(***************************************************************************)
(* Matrix constructor (section 3.3.1).                                     *)
(***************************************************************************)
\* mat[p + i][q + j], or null outside the matrix (line 474)
MatCell(m, null, p, q) ==
    IF p < m.rows /\ q < m.cols THEN m.cell[p][q] ELSE null

\* MatLeafBlock reading the block column by column
MatLeafBlockTransposed(m, k, null, p, q) ==
    [c \in 1 .. k * k |-> MatCell(m, null, p + ((c - 1) % k), q + ((c - 1) \div k))]

\* the k*k block of leaf values of the submatrix at (p, q)
MatLeafBlock(m, k, null, p, q) ==
    [c \in 1 .. k * k |-> MatCell(m, null, p + ((c - 1) \div k), q + ((c - 1) % k))]

\* buildFromMatrix: st = [levels, L] is the builder's mutable state; the
\* result is [st, bit].  Children are visited in row-major order c = 0 .. k*k-1.
RECURSIVE buildFromMatrix(_, _, _, _, _, _, _, _, _)
RECURSIVE buildFromMatrixChildren(_, _, _, _, _, _, _, _, _, _, _)
\* buildFromMatrix appending every leaf block to L, the all-null ones too
buildFromMatrixKeepingNullBlocks(m, k, null, h, st, n, l, p, q) ==
    IF l = h
    THEN LET C == MatLeafBlock(m, k, null, p, q)
         IN  [st |-> [st EXCEPT !.L = @ \o C], bit |-> IF isAll(C, null) THEN 0 ELSE 1]
    ELSE LET r == buildFromMatrixChildren(m, k, null, h, st, n, l, p, q, 0, <<>>)
         IN  IF isAllZero(r.C)
             THEN [st |-> r.st, bit |-> 0]
             ELSE [st |-> [r.st EXCEPT !.levels[l] = @ \o r.C], bit |-> 1]

buildFromMatrix(m, k, null, h, st, n, l, p, q) ==
    IF l = h
    THEN LET C == MatLeafBlock(m, k, null, p, q)
         IN  IF isAll(C, null)
             THEN [st |-> st, bit |-> 0]
             ELSE [st |-> [st EXCEPT !.L = @ \o C], bit |-> 1]
    ELSE LET r == buildFromMatrixChildren(m, k, null, h, st, n, l, p, q, 0, <<>>)
         IN  IF isAllZero(r.C)
             THEN [st |-> r.st, bit |-> 0]
             ELSE [st |-> [r.st EXCEPT !.levels[l] = @ \o r.C], bit |-> 1]

buildFromMatrixChildren(m, k, null, h, st, n, l, p, q, c, C) ==
    IF c = k * k
    THEN [st |-> st, C |-> C]
    ELSE LET r == buildFromMatrix(m, k, null, h, st, n \div k, l + 1,
                                  p + (c \div k) * (n \div k),
                                  q + (c % k) * (n \div k))
         IN  After(r, buildFromMatrixChildren(m, k, null, h, r.st, n, l, p, q, c + 1,
                                              Append(C, r.bit)))

\* the instance a constructor leaves behind
Tree(k, null, h, T, L) ==
    [k |-> k, null |-> null, h |-> h, nPrime |-> Pow(k, h), T |-> T, L |-> L]

\* BasicK2Tree(const matrix_type&, size_type, elem_type)
NewFromMatrix(m, k, null) ==
    LET h  == Max(1, logK(Max(m.rows, m.cols), k))
        st == buildFromMatrix(m, k, null, h,
                              [levels |-> Rep(h - 1, <<>>), L |-> <<>>],
                              Pow(k, h), 1, 0, 0).st
    IN  Tree(k, null, h, Flatten(st.levels), st.L)

(***************************************************************************)
(* List-of-lists constructor, mode 0: row cursors (section 3.3.2).         *)
(*                                                                         *)
(* lists is a sequence of rows, each a sequence of [first, second] pairs.  *)
(* A cursor is an index into its row, Len + 1 being end().  A cursor that  *)
(* was incremented past end() compares unequal to end() and dereferences   *)
(* to the stray pair g; incrementing cursors[p + i] for a row beyond       *)
(* lists.size() writes outside the modelled state.                         *)
(***************************************************************************)
\* *cursors[r] for row r (0-based) with cursor value cur
cursorEntry(lists, r, cur, g) ==
    IF cur <= Len(lists[r + 1]) THEN lists[r + 1][cur] ELSE g

\* lines 518-525: the leaf loop over c = i * k + j, threading the cursors
RECURSIVE buildFromListsLeaf(_, _, _, _, _, _, _, _, _)
buildFromListsLeaf(lists, k, null, g, cursors, p, q, c, C) ==
    IF c = k * k
    THEN [cursors |-> cursors, C |-> C]
    ELSE LET r   == p + (c \div k)
             col == q + (c % k)
             hit == /\ r < Len(lists)
                    /\ cursors[r + 1] # Len(lists[r + 1]) + 1
                    /\ col = cursorEntry(lists, r, cursors[r + 1], g).first
             v   == IF hit THEN cursorEntry(lists, r, cursors[r + 1], g).second
                           ELSE null
             nc  == IF Truthy(v) /\ r < Len(lists)
                    THEN [cursors EXCEPT ![r + 1] = @ + 1]
                    ELSE cursors
         IN  After(nc, buildFromListsLeaf(lists, k, null, g, nc, p, q, c + 1,
                                          Append(C, v)))

RECURSIVE buildFromLists(_, _, _, _, _, _, _, _, _, _)
RECURSIVE buildFromListsChildren(_, _, _, _, _, _, _, _, _, _, _, _)
buildFromLists(lists, k, null, g, h, st, n, l, p, q) ==
    IF l = h
    THEN LET r == buildFromListsLeaf(lists, k, null, g, st.cursors, p, q, 0, <<>>)
         IN  IF isAll(r.C, null)
             THEN [st |-> [st EXCEPT !.cursors = r.cursors], bit |-> 0]
             ELSE [st |-> [st EXCEPT !.cursors = r.cursors, !.L = @ \o r.C],
                   bit |-> 1]
    ELSE LET r == buildFromListsChildren(lists, k, null, g, h, st, n, l, p, q, 0, <<>>)
         IN  IF isAllZero(r.C)
             THEN [st |-> r.st, bit |-> 0]
             ELSE [st |-> [r.st EXCEPT !.levels[l] = @ \o r.C], bit |-> 1]

buildFromListsChildren(lists, k, null, g, h, st, n, l, p, q, c, C) ==
    IF c = k * k
    THEN [st |-> st, C |-> C]
    ELSE LET r == buildFromLists(lists, k, null, g, h, st, n \div k, l + 1,
                                 p + (c \div k) * (n \div k),
                                 q + (c % k) * (n \div k))
         IN  After(r, buildFromListsChildren(lists, k, null, g, h, r.st, n, l, p, q,
                                             c + 1, Append(C, r.bit)))

\* lines 131-140: maxCol and the height of the list-of-lists constructor
listsMaxCol(lists) ==
    LET cols == UNION {{lists[r][x].first : x \in 1 .. Len(lists[r])} : r \in 1 .. Len(lists)}
    IN  IF cols = {} THEN 0 ELSE CHOOSE c \in cols : \A d \in cols : d <= c

\* the height computed from the largest column alone, without the + 1
listsHeightOfMaxCol(lists, k) == Max(1, logK(Max(Len(lists), listsMaxCol(lists)), k))

listsHeight(lists, k) == Max(1, logK(Max(Len(lists), listsMaxCol(lists) + 1), k))

\* BasicK2Tree(lists, k, 0, null)
NewFromListsCursors(lists, k, null, g) ==
    LET h  == listsHeight(lists, k)
        st == buildFromLists(lists, k, null, g, h,
                             [levels  |-> Rep(h - 1, <<>>), L |-> <<>>,
                              cursors |-> Rep(Len(lists), 1)],
                             Pow(k, h), 1, 0, 0).st
    IN  Tree(k, null, h, Flatten(st.levels), st.L)

(***************************************************************************)
(* List-of-lists constructor, mode 1: transient pointered quadtree         *)
(* (section 3.3.3).  Node<E> (Utility.hpp) is a leaf [leaf |-> TRUE,       *)
(* label] or an internal node [leaf |-> FALSE, label, children]; an empty  *)
(* child slot (a null pointer) holds NoNode, the only node not `present`.  *)
(***************************************************************************)
NoNode == [present |-> FALSE, leaf |-> TRUE, label |-> 0]

LeafNode(label) == [present |-> TRUE, leaf |-> TRUE, label |-> label]

\* Node::turnInternal(k * k, leaves): k * k slots, filled with leaves carrying the
\* node's label when `leaves`, empty otherwise
turnInternal(node, kk, leaves) ==
    [present |-> TRUE, leaf |-> FALSE, label |-> node.label,
     children |-> Rep(kk, IF leaves THEN LeafNode(node.label) ELSE NoNode)]

\* insert(Node*, n, p, q, val): the node after the insertion
RECURSIVE insertNode(_, _, _, _, _, _, _)
insertNode(node, k, null, n, p, q, val) ==
    IF n = k
    THEN LET nd == IF node.leaf THEN turnInternal(node, k * k, TRUE) ELSE node
         IN  [nd EXCEPT !.children[p * k + q + 1] = LeafNode(val)]
    ELSE LET nd    == IF node.leaf THEN turnInternal(node, k * k, FALSE) ELSE node
             z     == (p \div (n \div k)) * k + q \div (n \div k)
             child == IF nd.children[z + 1].present THEN nd.children[z + 1]
                                                     ELSE LeafNode(null)
         IN  [nd EXCEPT !.children[z + 1] =
                 insertNode(child, k, null, n \div k, p % (n \div k), q % (n \div k), val)]

\* lines 565-569: all entries inserted, row by row
RECURSIVE insertAllNodes(_, _, _, _, _, _, _)
insertAllNodes(lists, k, null, nPrime, node, i, j) ==
    IF i > Len(lists)
    THEN node
    ELSE IF j > Len(lists[i])
         THEN insertAllNodes(lists, k, null, nPrime, node, i + 1, 1)
         ELSE LET nd == insertNode(node, k, null, nPrime, i - 1,
                                   lists[i][j].first, lists[i][j].second)
              IN  After(nd, insertAllNodes(lists, k, null, nPrime, nd, i, j + 1))

\* lines 581-604: the breadth-first flattening; acc = [T, L]
RECURSIVE flattenNodes(_, _, _)
flattenNodes(queue, kk, acc) ==
    IF Len(queue) = 0
    THEN acc
    ELSE LET node == Head(queue)
             kids == node.children
             toL  == SelectSeq(kids, LAMBDA c : c.present /\ c.leaf)
             toT  == SelectSeq(kids, LAMBDA c : ~(c.present /\ c.leaf))
             nxt  == [T |-> acc.T \o [x \in 1 .. Len(toT) |->
                                          IF toT[x].present THEN 1 ELSE 0],
                      L |-> acc.L \o [x \in 1 .. Len(toL) |-> toL[x].label]]
         IN  After(nxt, flattenNodes(Tail(queue) \o SelectSeq(toT, LAMBDA c : c.present),
                                     kk, nxt))

\* buildFromListsViaTree
buildFromListsViaTree(lists, k, null, nPrime) ==
    LET root == insertAllNodes(lists, k, null, nPrime, LeafNode(null), 1, 1)
    IN  IF ~root.leaf
        THEN flattenNodes(<<root>>, k * k, [T |-> <<>>, L |-> <<>>])
        ELSE [T |-> <<>>, L |-> <<>>]

\* BasicK2Tree(lists, k, 1, null)
NewFromListsViaTree(lists, k, null) ==
    LET h == listsHeight(lists, k)
        r == buildFromListsViaTree(lists, k, null, Pow(k, h))
    IN  Tree(k, null, h, r.T, r.L)

(***************************************************************************)
(* List-of-lists constructor, mode 2: dynamic bitmaps (section 3.3.4).     *)
(* NaiveDynamicRank (Utility.hpp) is kept in step with T by increaseFrom   *)
(* and insert, so R.rank(i) is rank(T, i) of the current T.                *)
(***************************************************************************)
\* v.insert(v.end(), cnt, x): the block appended instead of inserted at `at`
InsertAtEnd(v, at, cnt, x) == v \o Rep(cnt, x)

\* v.insert(v.begin() + at, cnt, x)
InsertAt(v, at, cnt, x) ==
    SubSeq(v, 1, at) \o Rep(cnt, x) \o SubSeq(v, at + 1, Len(v))

\* insert(T, R, n, p, q, val, z, l): bm = [T, L]
RECURSIVE insertBitmaps(_, _, _, _, _, _, _, _, _, _)
insertBitmaps(bm, k, null, h, n, p, q, val, z, l) ==
    IF bm.T[z + 1] = 0
    THEN LET T1 == [bm.T EXCEPT ![z + 1] = 1]
             y  == rank(T1, z + 1) * k * k + (p \div (n \div k)) * k + q \div (n \div k)
         IN  IF l + 1 = h
             THEN LET L1 == InsertAt(bm.L, rank(T1, z + 1) * k * k - Len(T1), k * k, null)
                  IN  [T |-> T1, L |-> [L1 EXCEPT ![y - Len(T1) + 1] = val]]
             ELSE insertBitmaps([T |-> InsertAt(T1, rank(T1, z + 1) * k * k, k * k, 0),
                                 L |-> bm.L],
                                k, null, h, n \div k, p % (n \div k), q % (n \div k),
                                val, y, l + 1)
    ELSE LET y == rank(bm.T, z + 1) * k * k + (p \div (n \div k)) * k + q \div (n \div k)
         IN  IF l + 1 = h
             THEN [T |-> bm.T, L |-> [bm.L EXCEPT ![y - Len(bm.T) + 1] = val]]
             ELSE insertBitmaps(bm, k, null, h, n \div k, p % (n \div k),
                                q % (n \div k), val, y, l + 1)

\* insertInit(T, R, p, q, val)
insertInit(bm, k, null, h, nPrime, p, q, val) ==
    LET b0 == IF Len(bm.T) = 0 THEN [bm EXCEPT !.T = Rep(k * k, 0)] ELSE bm
    IN  insertBitmaps(b0, k, null, h, nPrime \div k, p % (nPrime \div k),
                      q % (nPrime \div k), val,
                      (p \div (nPrime \div k)) * k + q \div (nPrime \div k), 1)

\* the two nested loops over the entries (lines 647-651 and 662-666)
RECURSIVE insertAllBitmaps(_, _, _, _, _, _, _, _)
insertAllBitmaps(lists, k, null, h, nPrime, bm, i, j) ==
    IF i > Len(lists)
    THEN bm
    ELSE IF j > Len(lists[i])
         THEN insertAllBitmaps(lists, k, null, h, nPrime, bm, i + 1, 1)
         ELSE LET nxt == IF h = 1
                         THEN [bm EXCEPT !.L[(i - 1) * k + lists[i][j].first + 1] =
                                              lists[i][j].second]
                         ELSE insertInit(bm, k, null, h, nPrime, i - 1,
                                         lists[i][j].first, lists[i][j].second)
              IN  After(nxt, insertAllBitmaps(lists, k, null, h, nPrime, nxt, i, j + 1))

\* buildFromListsDynamicBitmaps
buildFromListsDynamicBitmaps(lists, k, null, h, nPrime) ==
    IF h = 1
    THEN LET bm == insertAllBitmaps(lists, k, null, h, nPrime,
                       [T |-> <<>>, L |-> Rep(k * k, null)], 1, 1)
         IN  IF isAll(bm.L, null) THEN [T |-> <<>>, L |-> <<>>] ELSE bm
    ELSE insertAllBitmaps(lists, k, null, h, nPrime, [T |-> <<>>, L |-> <<>>], 1, 1)

\* BasicK2Tree(lists, k, 2, null)
NewFromListsDynamicBitmaps(lists, k, null) ==
    LET h == listsHeight(lists, k)
        r == buildFromListsDynamicBitmaps(lists, k, null, h, Pow(k, h))
    IN  Tree(k, null, h, r.T, r.L)

(***************************************************************************)
(* List-of-pairs constructor: in-place counting sort (section 3.3.5).      *)
(* pairs is a sequence of [row, col, val]; a subproblem is                 *)
(* [firstRow, lastRow, firstCol, lastCol, left, right].                    *)
(***************************************************************************)
\* computeKey with rows and columns exchanged
computeKeyColumnMajor(pair, sp, width, k) ==
    ((pair.col - sp.firstCol) \div width) * k + (pair.row - sp.firstRow) \div width

computeKey(pair, sp, width, k) ==
    ((pair.row - sp.firstRow) \div width) * k + (pair.col - sp.firstCol) \div width

\* lines 746-755: counts[key] after the prefix-sum loop, from the key frequencies
RECURSIVE countingStarts(_, _)
countingStarts(freq, key) ==
    IF key = 0 THEN 0 ELSE countingStarts(freq, key - 1) + freq[key]

\* lines 759-764: pairs[i] is copied to tmpPairs[counts[key]], counts[key]++
RECURSIVE countingPlace(_, _, _, _, _, _, _)
countingPlace(pairs, sp, width, k, i, counts, tmpPairs) ==
    IF i >= sp.right
    THEN tmpPairs
    ELSE LET key == computeKey(pairs[i + 1], sp, width, k)
         IN  countingPlace(pairs, sp, width, k, i + 1,
                           [counts EXCEPT ![key + 1] = @ + 1],
                           [tmpPairs EXCEPT ![counts[key + 1] + 1] = pairs[i + 1]])

\* countingSort: the reordered pairs and the intervals [first, second) per key
countingSort(pairs, sp, width, sup, k) ==
    LET freq   == [key \in 1 .. sup |->
                      Cardinality({i \in sp.left .. sp.right - 1 :
                                      computeKey(pairs[i + 1], sp, width, k) = key - 1})]
        counts == AsSeq([key \in 1 .. sup |-> countingStarts(freq, key - 1)], sup)
        tmp    == countingPlace(pairs, sp, width, k, sp.left, counts,
                                Rep(sp.right - sp.left + 1, <<>>))
    IN  [pairs     |-> [i \in 1 .. Len(pairs) |->
                           IF sp.left < i /\ i <= sp.right THEN tmp[i - sp.left]
                                                           ELSE pairs[i]],
         intervals |-> [key \in 1 .. sup |->
                           [first  |-> counts[key],
                            second |-> counts[key] + freq[key]]]]

\* value-initialised element elem_type() of std::vector<elem_type>(k * k), line 816
ElemDefault == 0

\* lines 816-820: the leaf block of a subproblem, later pairs overwriting earlier ones
RECURSIVE leafBlock(_, _, _, _, _)
RECURSIVE leafBlockBackwards(_, _, _, _, _)
\* the leaf block written from the last pair of the slice to the first, so
\* that earlier pairs overwrite later ones
leafBlockBackwards(pairs, sp, k, i, appToL) ==
    IF i >= sp.right
    THEN appToL
    ELSE LET x == sp.right - 1 - (i - sp.left)
         IN  leafBlockBackwards(pairs, sp, k, i + 1,
                 [appToL EXCEPT ![(pairs[x + 1].row - sp.firstRow) * k
                                      + (pairs[x + 1].col - sp.firstCol) + 1] =
                                    pairs[x + 1].val])

leafBlock(pairs, sp, k, i, appToL) ==
    IF i >= sp.right
    THEN appToL
    ELSE leafBlock(pairs, sp, k, i + 1,
             [appToL EXCEPT ![(pairs[i + 1].row - sp.firstRow) * k
                                  + (pairs[i + 1].col - sp.firstCol) + 1] =
                                pairs[i + 1].val])

\* the subproblems pushed for the non-empty intervals (lines 794-812)
inplaceChildren(sp, S, k, intervals) ==
    SelectSeq([i \in 1 .. k * k |->
                  [firstRow |-> sp.firstRow + ((i - 1) \div k) * (S \div k),
                   lastRow  |-> sp.firstRow + ((i - 1) \div k + 1) * (S \div k) - 1,
                   firstCol |-> sp.firstCol + ((i - 1) % k) * (S \div k),
                   lastCol  |-> sp.firstCol + (((i - 1) % k) + 1) * (S \div k) - 1,
                   left     |-> sp.left + intervals[i].first,
                   right    |-> sp.left + intervals[i].second]],
              LAMBDA c : c.left < c.right)

\* one iteration of "while (!queue.empty())": w = [queue, pairs, T, L]
inplaceStep(w, k) ==
    LET sp == Head(w.queue)
        S  == sp.lastRow - sp.firstRow + 1
    IN  IF S > k
        THEN LET cs == countingSort(w.pairs, sp, S \div k, k * k, k)
             IN  [queue |-> Tail(w.queue) \o inplaceChildren(sp, S, k, cs.intervals),
                  pairs |-> cs.pairs,
                  T     |-> w.T \o [i \in 1 .. k * k |->
                                       IF cs.intervals[i].first < cs.intervals[i].second
                                       THEN 1 ELSE 0],
                  L     |-> w.L]
        ELSE [queue |-> Tail(w.queue),
              pairs |-> w.pairs,
              T     |-> w.T,
              L     |-> w.L \o leafBlock(w.pairs, sp, k, sp.left,
                                         Rep(k * k, ElemDefault))]

RECURSIVE inplaceLoop(_, _)
inplaceLoop(w, k) == IF Len(w.queue) = 0 THEN w ELSE inplaceLoop(inplaceStep(w, k), k)

\* buildFromListsInplace
buildFromListsInplace(pairs, k, nPrime) ==
    inplaceLoop([queue |-> <<[firstRow |-> 0, lastRow |-> nPrime - 1,
                              firstCol |-> 0, lastCol |-> nPrime - 1,
                              left |-> 0, right |-> Len(pairs)]>>,
                 pairs |-> pairs, T |-> <<>>, L |-> <<>>], k)

\* lines 211-214
pairsMaxIndex(pairs) ==
    LET idx == {pairs[x].row : x \in 1 .. Len(pairs)} \cup {pairs[x].col : x \in 1 .. Len(pairs)}
    IN  IF idx = {} THEN 0 ELSE CHOOSE c \in idx : \A d \in idx : d <= c

\* BasicK2Tree(pairs, k, null)
NewFromPairs(pairs, k, null) ==
    LET h == Max(1, logK(pairsMaxIndex(pairs) + 1, k))
        r == IF Len(pairs) # 0 THEN buildFromListsInplace(pairs, k, Pow(k, h))
                               ELSE [T |-> <<>>, L |-> <<>>]
    IN  Tree(k, null, h, r.T, r.L)

(***************************************************************************)
(* Point queries.                                                          *)
(***************************************************************************)
\* check / get share the rank-guided descent; they differ in the leaf case
RECURSIVE get(_, _, _, _, _)
get(t, n, p, q, z) ==
    IF z >= Len(t.T)
    THEN t.L[z - Len(t.T) + 1]
    ELSE IF t.T[z + 1] = 1
         THEN get(t, n \div t.k, p % (n \div t.k), q % (n \div t.k),
                  rank(t.T, z + 1) * t.k * t.k
                      + (p \div (n \div t.k)) * t.k + q \div (n \div t.k))
         ELSE t.null

getInit(t, p, q) ==
    IF Len(t.L) = 0
    THEN t.null
    ELSE get(t, t.nPrime \div t.k, p % (t.nPrime \div t.k), q % (t.nPrime \div t.k),
             (p \div (t.nPrime \div t.k)) * t.k + q \div (t.nPrime \div t.k))

\* isNotNull(): same descent as get, testing the leaf against null
RECURSIVE check(_, _, _, _, _)
\* check with the leaf converted to bool instead of compared with null
checkTruthy(t, n, p, q, z) ==
    IF z >= Len(t.T)
    THEN Truthy(t.L[z - Len(t.T) + 1])
    ELSE IF t.T[z + 1] = 1
         THEN check(t, n \div t.k, p % (n \div t.k), q % (n \div t.k),
                    rank(t.T, z + 1) * t.k * t.k
                        + (p \div (n \div t.k)) * t.k + q \div (n \div t.k))
         ELSE FALSE

check(t, n, p, q, z) ==
    IF z >= Len(t.T)
    THEN t.L[z - Len(t.T) + 1] # t.null
    ELSE IF t.T[z + 1] = 1
         THEN check(t, n \div t.k, p % (n \div t.k), q % (n \div t.k),
                    rank(t.T, z + 1) * t.k * t.k
                        + (p \div (n \div t.k)) * t.k + q \div (n \div t.k))
         ELSE FALSE

checkInit(t, p, q) ==
    IF Len(t.L) = 0
    THEN FALSE
    ELSE check(t, t.nPrime \div t.k, p % (t.nPrime \div t.k), q % (t.nPrime \div t.k),
               (p \div (t.nPrime \div t.k)) * t.k + q \div (t.nPrime \div t.k))

\* the descent check, get and set share: the position of L_ they read or write
\* (0-based, z - T_.size()), or -1 when a 0 bit of T_ or an empty L_ stops them
RECURSIVE leafPosition(_, _, _, _, _)
leafPosition(t, n, p, q, z) ==
    IF z >= Len(t.T)
    THEN z - Len(t.T)
    ELSE IF t.T[z + 1] = 1
         THEN leafPosition(t, n \div t.k, p % (n \div t.k), q % (n \div t.k),
                           rank(t.T, z + 1) * t.k * t.k
                               + (p \div (n \div t.k)) * t.k + q \div (n \div t.k))
         ELSE -1

leafPositionInit(t, p, q) ==
    IF Len(t.L) = 0
    THEN -1
    ELSE leafPosition(t, t.nPrime \div t.k, p % (t.nPrime \div t.k),
                      q % (t.nPrime \div t.k),
                      (p \div (t.nPrime \div t.k)) * t.k + q \div (t.nPrime \div t.k))

\* every position (0-based, over T_ followed by L_) the descent visits
RECURSIVE descentPositions(_, _, _, _, _)
descentPositions(t, n, p, q, z) ==
    IF z >= Len(t.T)
    THEN {z}
    ELSE IF t.T[z + 1] = 1
         THEN {z} \cup descentPositions(t, n \div t.k, p % (n \div t.k),
                                        q % (n \div t.k),
                                        rank(t.T, z + 1) * t.k * t.k
                                            + (p \div (n \div t.k)) * t.k
                                            + q \div (n \div t.k))
         ELSE {z}

descentPositionsInit(t, p, q) ==
    IF Len(t.L) = 0
    THEN {}
    ELSE descentPositions(t, t.nPrime \div t.k, p % (t.nPrime \div t.k),
                          q % (t.nPrime \div t.k),
                          (p \div (t.nPrime \div t.k)) * t.k
                              + q \div (t.nPrime \div t.k))

(***************************************************************************)
(* setNull().                                                              *)
(***************************************************************************)
\* set: the leaf sequence after the descent (T_ is never written)
RECURSIVE set(_, _, _, _, _)
\* set writing the value-initialised element instead of null into the leaf
setDefaultValue(t, n, p, q, z) ==
    IF z >= Len(t.T)
    THEN [t.L EXCEPT ![z - Len(t.T) + 1] = ElemDefault]
    ELSE IF t.T[z + 1] = 1
         THEN set(t, n \div t.k, p % (n \div t.k), q % (n \div t.k),
                  rank(t.T, z + 1) * t.k * t.k
                      + (p \div (n \div t.k)) * t.k + q \div (n \div t.k))
         ELSE t.L

\* set overwriting the whole k*k leaf block of the cell
setWholeBlock(t, n, p, q, z) ==
    IF z >= Len(t.T)
    THEN AsSeq([x \in 1 .. Len(t.L) |->
                   IF (x - 1) \div (t.k * t.k) = (z - Len(t.T)) \div (t.k * t.k)
                   THEN t.null ELSE t.L[x]], Len(t.L))
    ELSE IF t.T[z + 1] = 1
         THEN set(t, n \div t.k, p % (n \div t.k), q % (n \div t.k),
                  rank(t.T, z + 1) * t.k * t.k
                      + (p \div (n \div t.k)) * t.k + q \div (n \div t.k))
         ELSE t.L

set(t, n, p, q, z) ==
    IF z >= Len(t.T)
    THEN [t.L EXCEPT ![z - Len(t.T) + 1] = t.null]
    ELSE IF t.T[z + 1] = 1
         THEN set(t, n \div t.k, p % (n \div t.k), q % (n \div t.k),
                  rank(t.T, z + 1) * t.k * t.k
                      + (p \div (n \div t.k)) * t.k + q \div (n \div t.k))
         ELSE t.L

setInit(t, p, q) ==
    IF Len(t.L) # 0
    THEN set(t, t.nPrime \div t.k, p % (t.nPrime \div t.k), q % (t.nPrime \div t.k),
             (p \div (t.nPrime \div t.k)) * t.k + q \div (t.nPrime \div t.k))
    ELSE t.L

(***************************************************************************)
(* Row successors (iterative, two FIFO queues) and column predecessors.    *)
(***************************************************************************)
\* successorsNextLevel always descending into the first row of children
successorsNextLevelFirstRow(t, queue, relP, n) ==
    Flatten([x \in 1 .. Len(queue) |->
        IF t.T[queue[x].z + 1] = 1
        THEN [j \in 1 .. t.k |->
                 [dq |-> queue[x].dq + (j - 1) * n,
                  z  |-> rank(t.T, queue[x].z + 1) * t.k * t.k + (j - 1)]]
        ELSE <<>>])

\* one pass of the "for (; n > 1; ...)" loop body: every queue entry whose bit
\* is set pushes the k children of its row relP / n to nextLevelQueue
successorsNextLevel(t, queue, relP, n) ==
    Flatten([x \in 1 .. Len(queue) |->
        IF t.T[queue[x].z + 1] = 1
        THEN [j \in 1 .. t.k |->
                 [dq |-> queue[x].dq + (j - 1) * n,
                  z  |-> rank(t.T, queue[x].z + 1) * t.k * t.k
                             + t.k * (relP \div n) + (j - 1)]]
        ELSE <<>>])

\* the level loop: returns the queue and relP, n it ends with
RECURSIVE successorsLevels(_, _, _, _)
successorsLevels(t, queue, relP, n) ==
    IF n > 1
    THEN successorsLevels(t, successorsNextLevel(t, queue, relP, n), relP % n, n \div t.k)
    ELSE [queue |-> queue, relP |-> relP, n |-> n]

\* successorsLeaves walking the k leaves of a block from the last to the first
successorsLeavesBackwards(t, p, queue, relP, n) ==
    Flatten([x \in 1 .. Len(queue) |->
        IF t.T[queue[x].z + 1] = 1
        THEN SelectSeq([j \in 1 .. t.k |->
                          [row |-> p, col |-> queue[x].dq + (t.k - j) * n,
                           y |-> rank(t.T, queue[x].z + 1) * t.k * t.k
                                     + t.k * (relP \div n) - Len(t.T) + (t.k - j)]],
                       LAMBDA e : t.L[e.y + 1] # t.null)
        ELSE <<>>])

\* the last loop: the leaves reached, as [row, col, y] with y the index into L_
successorsLeaves(t, p, queue, relP, n) ==
    Flatten([x \in 1 .. Len(queue) |->
        IF t.T[queue[x].z + 1] = 1
        THEN SelectSeq([j \in 1 .. t.k |->
                          [row |-> p, col |-> queue[x].dq + (j - 1) * n,
                           y |-> rank(t.T, queue[x].z + 1) * t.k * t.k
                                     + t.k * (relP \div n) - Len(t.T) + (j - 1)]],
                       LAMBDA e : t.L[e.y + 1] # t.null)
        ELSE <<>>])

\* the traversal shared by allSuccessor{Positions,Elements,ValuedPositions}Iterative
successorsIterative(t, p) ==
    IF Len(t.L) = 0
    THEN <<>>
    ELSE IF Len(t.T) = 0
         THEN SelectSeq([i \in 1 .. t.nPrime |->
                            [row |-> p, col |-> i - 1, y |-> p * t.nPrime + (i - 1)]],
                        LAMBDA e : t.L[e.y + 1] # t.null)
         ELSE LET n0    == t.nPrime \div t.k
                  queue == [j \in 1 .. t.k |->
                               [dq |-> (j - 1) * n0, z |-> t.k * (p \div n0) + (j - 1)]]
                  r     == successorsLevels(t, queue, p % n0, n0 \div t.k)
              IN  successorsLeaves(t, p, r.queue, r.relP, r.n)

allSuccessorPositionsIterative(t, p) ==
    LET s == successorsIterative(t, p) IN [x \in 1 .. Len(s) |-> s[x].col]

allSuccessorElementsIterative(t, p) ==
    LET s == successorsIterative(t, p) IN [x \in 1 .. Len(s) |-> t.L[s[x].y + 1]]

allSuccessorValuedPositionsIterative(t, p) ==
    LET s == successorsIterative(t, p)
    IN  [x \in 1 .. Len(s) |-> <<s[x].row, s[x].col, t.L[s[x].y + 1]>>]

RECURSIVE predecessorsPos(_, _, _, _, _)
predecessorsPos(t, n, q, p, z) ==
    IF z >= Len(t.T)
    THEN IF t.L[z - Len(t.T) + 1] # t.null THEN <<p>> ELSE <<>>
    ELSE IF t.T[z + 1] = 1
         THEN LET y == rank(t.T, z + 1) * t.k * t.k + q \div (n \div t.k)
              IN  Flatten([i \in 1 .. t.k |->
                      predecessorsPos(t, n \div t.k, q % (n \div t.k),
                                      p + (n \div t.k) * (i - 1), y + (i - 1) * t.k)])
         ELSE <<>>

predecessorsPosInit(t, q) ==
    IF Len(t.L) # 0
    THEN LET y == q \div (t.nPrime \div t.k)
         IN  Flatten([i \in 1 .. t.k |->
                 predecessorsPos(t, t.nPrime \div t.k, q % (t.nPrime \div t.k),
                                 (t.nPrime \div t.k) * (i - 1), y + (i - 1) * t.k)])
    ELSE <<>>

(***************************************************************************)
(* The recursive row-successor and first-successor routines (not called by *)
(* the public interface).                                                  *)
(***************************************************************************)
\* successorsPos: the columns pushed to succs, in order
RECURSIVE successorsPos(_, _, _, _, _)
successorsPos(t, n, p, q, z) ==
    IF z >= Len(t.T)
    THEN IF t.L[z - Len(t.T) + 1] # t.null THEN <<q>> ELSE <<>>
    ELSE IF t.T[z + 1] = 1
         THEN LET y == rank(t.T, z + 1) * t.k * t.k + t.k * (p \div (n \div t.k))
              IN  Flatten([j \in 1 .. t.k |->
                      successorsPos(t, n \div t.k, p % (n \div t.k),
                                    q + (n \div t.k) * (j - 1), y + (j - 1))])
         ELSE <<>>

successorsPosInit(t, p) ==
    IF Len(t.L) # 0
    THEN LET y == t.k * (p \div (t.nPrime \div t.k))
         IN  Flatten([j \in 1 .. t.k |->
                 successorsPos(t, t.nPrime \div t.k, p % (t.nPrime \div t.k),
                               (t.nPrime \div t.k) * (j - 1), y + (j - 1))])
    ELSE <<>>

\* firstSuccessor: pos; firstSuccessorFrom is its loop
\* "for (j = 0; j < k_ && pos == nPrime_; j++)" from child j on, over the
\* children of side n at columns q, q + n, ... and positions y, y + 1, ...
RECURSIVE firstSuccessor(_, _, _, _, _)
RECURSIVE firstSuccessorFrom(_, _, _, _, _, _)
firstSuccessor(t, n, p, q, z) ==
    IF z >= Len(t.T)
    THEN IF t.L[z - Len(t.T) + 1] # t.null THEN q ELSE t.nPrime
    ELSE IF t.T[z + 1] = 1
         THEN firstSuccessorFrom(t, n \div t.k, p % (n \div t.k), q,
                                 rank(t.T, z + 1) * t.k * t.k + t.k * (p \div (n \div t.k)),
                                 0)
         ELSE t.nPrime

firstSuccessorFrom(t, n, p, q, y, j) ==
    IF j >= t.k
    THEN t.nPrime
    ELSE LET pos == firstSuccessor(t, n, p, q + n * j, y + j)
         IN  IF pos = t.nPrime THEN firstSuccessorFrom(t, n, p, q, y, j + 1) ELSE pos

firstSuccessorInit(t, p) ==
    IF Len(t.L) # 0
    THEN firstSuccessorFrom(t, t.nPrime \div t.k, p % (t.nPrime \div t.k), 0,
                            t.k * (p \div (t.nPrime \div t.k)), 0)
    ELSE t.nPrime

(***************************************************************************)
(* getFirstSuccessor() (iterative, explicit stack; the top is the last     *)
(* element of the sequence).                                               *)
(***************************************************************************)
\* advance without moving the column offset
advanceInPlace(cur) == [cur EXCEPT !.z = @ + 1, !.j = @ + 1]

\* "cur.dq += cur.nc; cur.z++; cur.j++"
advance(cur) == [cur EXCEPT !.dq = @ + cur.nc, !.z = @ + 1, !.j = @ + 1]

\* one iteration of "while (!stack.empty())": [done, result, stack]
firstSuccessorStep(t, stack) ==
    LET cur  == stack[Len(stack)]
        rest == SubSeq(stack, 1, Len(stack) - 1)
    IN  IF cur.j = t.k
        THEN [done |-> FALSE, result |-> t.nPrime, stack |-> rest]
        ELSE IF cur.z >= Len(t.T)
             THEN IF t.L[cur.z - Len(t.T) + 1] # t.null
                  THEN [done |-> TRUE, result |-> cur.dq, stack |-> stack]
                  ELSE [done |-> FALSE, result |-> t.nPrime,
                        stack |-> Append(rest, advance(cur))]
             ELSE IF t.T[cur.z + 1] = 1
                  THEN [done |-> FALSE, result |-> t.nPrime,
                        stack |-> Append(Append(rest, advance(cur)),
                                    [nr |-> cur.nr \div t.k, nc |-> cur.nc \div t.k,
                                     p  |-> cur.p % (cur.nr \div t.k), dq |-> cur.dq,
                                     z  |-> rank(t.T, cur.z + 1) * t.k * t.k
                                                + t.k * (cur.p \div (cur.nr \div t.k)),
                                     j  |-> 0])]
                  ELSE [done |-> FALSE, result |-> t.nPrime,
                        stack |-> Append(rest, advance(cur))]

RECURSIVE firstSuccessorLoop(_, _)
firstSuccessorLoop(t, stack) ==
    IF Len(stack) = 0
    THEN t.nPrime
    ELSE LET r == firstSuccessorStep(t, stack)
         IN  IF r.done THEN r.result ELSE firstSuccessorLoop(t, r.stack)

\* the first non-null entry of row p of the single leaf block (T_ empty)
RECURSIVE firstInRow(_, _, _)
firstInRow(t, offset, i) ==
    IF i = t.nPrime
    THEN t.nPrime
    ELSE IF t.L[offset + i + 1] # t.null THEN i ELSE firstInRow(t, offset, i + 1)

firstSuccessorPositionIterative(t, p) ==
    IF Len(t.L) = 0
    THEN t.nPrime
    ELSE IF Len(t.T) = 0
         THEN firstInRow(t, p * t.nPrime, 0)
         ELSE firstSuccessorLoop(t,
                  <<[nr |-> t.nPrime \div t.k, nc |-> t.nPrime \div t.k,
                     p  |-> p % (t.nPrime \div t.k), dq |-> 0,
                     z  |-> t.k * (p \div (t.nPrime \div t.k)), j |-> 0]>>)

(***************************************************************************)
(* Range queries.                                                          *)
(***************************************************************************)
\* rangeChildren without clamping the far ends to the rectangle
rangeChildrenUnclamped(k, w, p1, p2, q1, q2, dp, dq, y) ==
    Flatten([a \in 1 .. (p2 \div w) - (p1 \div w) + 1 |->
        [b \in 1 .. (q2 \div w) - (q1 \div w) + 1 |->
            LET i == (p1 \div w) + a - 1
                j == (q1 \div w) + b - 1
            IN  [n  |-> w,
                 p1 |-> IF i = p1 \div w THEN p1 % w ELSE 0,
                 p2 |-> w - 1,
                 q1 |-> IF j = q1 \div w THEN q1 % w ELSE 0,
                 q2 |-> w - 1,
                 dp |-> dp + w * i,
                 dq |-> dq + w * j,
                 z  |-> y + k * i + j]]])

\* rangeChildren visiting the children column by column
rangeChildrenColumnMajor(k, w, p1, p2, q1, q2, dp, dq, y) ==
    Flatten([b \in 1 .. (q2 \div w) - (q1 \div w) + 1 |->
        [a \in 1 .. (p2 \div w) - (p1 \div w) + 1 |->
            LET i == (p1 \div w) + a - 1
                j == (q1 \div w) + b - 1
            IN  [n  |-> w,
                 p1 |-> IF i = p1 \div w THEN p1 % w ELSE 0,
                 p2 |-> IF i = p2 \div w THEN p2 % w ELSE w - 1,
                 q1 |-> IF j = q1 \div w THEN q1 % w ELSE 0,
                 q2 |-> IF j = q2 \div w THEN q2 % w ELSE w - 1,
                 dp |-> dp + w * i,
                 dq |-> dq + w * j,
                 z  |-> y + k * i + j]]])

\* the loops over the children i = p1 / w .. p2 / w, j = q1 / w .. q2 / w that
\* rangePos, rangeValPos and elemInRange (and their ...Init) share, w = n / k:
\* the sequence, in visiting order, of the arguments of the recursive calls
rangeChildren(k, w, p1, p2, q1, q2, dp, dq, y) ==
    Flatten([a \in 1 .. (p2 \div w) - (p1 \div w) + 1 |->
        [b \in 1 .. (q2 \div w) - (q1 \div w) + 1 |->
            LET i == (p1 \div w) + a - 1
                j == (q1 \div w) + b - 1
            IN  [n  |-> w,
                 p1 |-> IF i = p1 \div w THEN p1 % w ELSE 0,
                 p2 |-> IF i = p2 \div w THEN p2 % w ELSE w - 1,
                 q1 |-> IF j = q1 \div w THEN q1 % w ELSE 0,
                 q2 |-> IF j = q2 \div w THEN q2 % w ELSE w - 1,
                 dp |-> dp + w * i,
                 dq |-> dq + w * j,
                 z  |-> y + k * i + j]]])

\* rangeValPos: the (row, column, value) triples pushed, in order
RECURSIVE rangeValPos(_, _, _, _, _, _, _, _, _)
rangeValPos(t, n, p1, p2, q1, q2, dp, dq, z) ==
    IF z >= Len(t.T)
    THEN IF t.L[z - Len(t.T) + 1] # t.null
         THEN << <<dp, dq, t.L[z - Len(t.T) + 1]>> >>
         ELSE <<>>
    ELSE IF t.T[z + 1] = 1
         THEN LET cs == rangeChildren(t.k, n \div t.k, p1, p2, q1, q2, dp, dq,
                                      rank(t.T, z + 1) * t.k * t.k)
              IN  Flatten([x \in 1 .. Len(cs) |->
                      rangeValPos(t, cs[x].n, cs[x].p1, cs[x].p2, cs[x].q1, cs[x].q2,
                                  cs[x].dp, cs[x].dq, cs[x].z)])
         ELSE <<>>

rangeValPosInit(t, p1, p2, q1, q2) ==
    IF Len(t.L) # 0
    THEN LET cs == rangeChildren(t.k, t.nPrime \div t.k, p1, p2, q1, q2, 0, 0, 0)
         IN  Flatten([x \in 1 .. Len(cs) |->
                 rangeValPos(t, cs[x].n, cs[x].p1, cs[x].p2, cs[x].q1, cs[x].q2,
                             cs[x].dp, cs[x].dq, cs[x].z)])
    ELSE <<>>

\* rangePos: the (row, column) pairs pushed, in order
RECURSIVE rangePos(_, _, _, _, _, _, _, _, _)
rangePos(t, n, p1, p2, q1, q2, dp, dq, z) ==
    IF z >= Len(t.T)
    THEN IF t.L[z - Len(t.T) + 1] # t.null THEN << <<dp, dq>> >> ELSE <<>>
    ELSE IF t.T[z + 1] = 1
         THEN LET cs == rangeChildren(t.k, n \div t.k, p1, p2, q1, q2, dp, dq,
                                      rank(t.T, z + 1) * t.k * t.k)
              IN  Flatten([x \in 1 .. Len(cs) |->
                      rangePos(t, cs[x].n, cs[x].p1, cs[x].p2, cs[x].q1, cs[x].q2,
                               cs[x].dp, cs[x].dq, cs[x].z)])
         ELSE <<>>

rangePosInit(t, p1, p2, q1, q2) ==
    IF Len(t.L) # 0
    THEN LET cs == rangeChildren(t.k, t.nPrime \div t.k, p1, p2, q1, q2, 0, 0, 0)
         IN  Flatten([x \in 1 .. Len(cs) |->
                 rangePos(t, cs[x].n, cs[x].p1, cs[x].p2, cs[x].q1, cs[x].q2,
                          cs[x].dp, cs[x].dq, cs[x].z)])
    ELSE <<>>

\* elemInRange: the leaf is returned converted to bool (line 1718)
RECURSIVE elemInRange(_, _, _, _, _, _, _)
\* elemInRange without the return for a rectangle that covers the submatrix
elemInRangeWithoutCover(t, n, p1, p2, q1, q2, z) ==
    IF z >= Len(t.T)
    THEN Truthy(t.L[z - Len(t.T) + 1])
    ELSE IF t.T[z + 1] = 1
         THEN LET cs == rangeChildren(t.k, n \div t.k, p1, p2, q1, q2, 0, 0,
                                      rank(t.T, z + 1) * t.k * t.k)
              IN  \E x \in 1 .. Len(cs) :
                      elemInRange(t, cs[x].n, cs[x].p1, cs[x].p2, cs[x].q1,
                                  cs[x].q2, cs[x].z)
         ELSE FALSE

elemInRange(t, n, p1, p2, q1, q2, z) ==
    IF z >= Len(t.T)
    THEN Truthy(t.L[z - Len(t.T) + 1])
    ELSE IF t.T[z + 1] = 1
         THEN \/ (p1 = 0 /\ q1 = 0 /\ p2 = n - 1 /\ q2 = n - 1)
              \/ LET cs == rangeChildren(t.k, n \div t.k, p1, p2, q1, q2, 0, 0,
                                         rank(t.T, z + 1) * t.k * t.k)
                 IN  \E x \in 1 .. Len(cs) :
                         elemInRange(t, cs[x].n, cs[x].p1, cs[x].p2, cs[x].q1,
                                     cs[x].q2, cs[x].z)
         ELSE FALSE

elemInRangeInit(t, p1, p2, q1, q2) ==
    IF Len(t.L) # 0
    THEN \/ (p1 = 0 /\ q1 = 0 /\ p2 = t.nPrime - 1 /\ q2 = t.nPrime - 1)
         \/ LET cs == rangeChildren(t.k, t.nPrime \div t.k, p1, p2, q1, q2, 0, 0, 0)
            IN  \E x \in 1 .. Len(cs) :
                    elemInRange(t, cs[x].n, cs[x].p1, cs[x].p2, cs[x].q1,
                                cs[x].q2, cs[x].z)
    ELSE FALSE

\* countElements(): scan of L_
countElements(t) == Cardinality({x \in 1 .. Len(t.L) : t.L[x] # t.null})

(***************************************************************************)
(* BasicK2Tree<bool>: null_ is false and a leaf is tested for truth; its   *)
(* instances are the trees with null = 0 whose leaves are 0 or 1.          *)
(***************************************************************************)
\* BasicK2Tree<bool>::range
RECURSIVE range(_, _, _, _, _, _, _, _, _)
range(t, n, p1, p2, q1, q2, dp, dq, z) ==
    IF z >= Len(t.T)
    THEN IF Truthy(t.L[z - Len(t.T) + 1]) THEN << <<dp, dq>> >> ELSE <<>>
    ELSE IF t.T[z + 1] = 1
         THEN LET cs == rangeChildren(t.k, n \div t.k, p1, p2, q1, q2, dp, dq,
                                      rank(t.T, z + 1) * t.k * t.k)
              IN  Flatten([x \in 1 .. Len(cs) |->
                      range(t, cs[x].n, cs[x].p1, cs[x].p2, cs[x].q1, cs[x].q2,
                            cs[x].dp, cs[x].dq, cs[x].z)])
         ELSE <<>>

\* BasicK2Tree<bool>::rangeInit
rangeInit(t, p1, p2, q1, q2) ==
    IF Len(t.L) # 0
    THEN LET cs == rangeChildren(t.k, t.nPrime \div t.k, p1, p2, q1, q2, 0, 0, 0)
         IN  Flatten([x \in 1 .. Len(cs) |->
                 range(t, cs[x].n, cs[x].p1, cs[x].p2, cs[x].q1, cs[x].q2,
                       cs[x].dp, cs[x].dq, cs[x].z)])
    ELSE <<>>

\* the trees a BasicK2Tree<bool> can hold
IsBoolTree(t) == t.null = 0 /\ \A x \in 1 .. Len(t.L) : t.L[x] \in {0, 1}

\* BasicK2Tree<bool>::buildFromMatrix: levels holds the h levels, the leaf
\* level included; a cell outside the matrix is false; the result is
\* [levels, bit]
RECURSIVE buildFromMatrixBool(_, _, _, _, _, _, _, _)
RECURSIVE buildFromMatrixBoolChildren(_, _, _, _, _, _, _, _, _, _)
\* buildFromMatrixBool storing the all-zero blocks too
buildFromMatrixBoolKeepingZeroBlocks(m, k, h, levels, n, l, p, q) ==
    LET r == IF l = h
             THEN [levels |-> levels,
                   C |-> [c \in 1 .. k * k |->
                             IF p + ((c - 1) \div k) < m.rows /\ q + ((c - 1) % k) < m.cols
                             THEN m.cell[p + ((c - 1) \div k)][q + ((c - 1) % k)]
                             ELSE 0]]
             ELSE buildFromMatrixBoolChildren(m, k, h, levels, n, l, p, q, 0, <<>>)
    IN  [levels |-> [r.levels EXCEPT ![l] = @ \o r.C],
         bit |-> IF isAllZero(r.C) THEN 0 ELSE 1]

buildFromMatrixBool(m, k, h, levels, n, l, p, q) ==
    LET r == IF l = h
             THEN [levels |-> levels,
                   C |-> [c \in 1 .. k * k |->
                             IF p + ((c - 1) \div k) < m.rows /\ q + ((c - 1) % k) < m.cols
                             THEN m.cell[p + ((c - 1) \div k)][q + ((c - 1) % k)]
                             ELSE 0]]
             ELSE buildFromMatrixBoolChildren(m, k, h, levels, n, l, p, q, 0, <<>>)
    IN  IF isAllZero(r.C)
        THEN [levels |-> r.levels, bit |-> 0]
        ELSE [levels |-> [r.levels EXCEPT ![l] = @ \o r.C], bit |-> 1]

buildFromMatrixBoolChildren(m, k, h, levels, n, l, p, q, c, C) ==
    IF c = k * k
    THEN [levels |-> levels, C |-> C]
    ELSE LET r == buildFromMatrixBool(m, k, h, levels, n \div k, l + 1,
                                      p + (c \div k) * (n \div k),
                                      q + (c % k) * (n \div k))
         IN  After(r, buildFromMatrixBoolChildren(m, k, h, r.levels, n, l, p, q, c + 1,
                                                  Append(C, r.bit)))

\* BasicK2Tree<bool>(const matrix_type&, size_type): null_ is false
NewFromMatrixBool(m, k) ==
    LET h      == Max(1, logK(Max(m.rows, m.cols), k))
        levels == buildFromMatrixBool(m, k, h, Rep(h, <<>>), Pow(k, h), 1, 0, 0).levels
    IN  Tree(k, 0, h, Flatten(SubSeq(levels, 1, h - 1)), levels[h])

\* BasicK2Tree<bool>::checkLink
RECURSIVE checkLink(_, _, _, _, _)
checkLink(t, n, p, q, z) ==
    IF z >= Len(t.T)
    THEN Truthy(t.L[z - Len(t.T) + 1])
    ELSE IF t.T[z + 1] = 1
         THEN checkLink(t, n \div t.k, p % (n \div t.k), q % (n \div t.k),
                        rank(t.T, z + 1) * t.k * t.k
                            + (p \div (n \div t.k)) * t.k + q \div (n \div t.k))
         ELSE FALSE

checkLinkInit(t, p, q) ==
    IF Len(t.L) = 0
    THEN FALSE
    ELSE checkLink(t, t.nPrime \div t.k, p % (t.nPrime \div t.k), q % (t.nPrime \div t.k),
                   (p \div (t.nPrime \div t.k)) * t.k + q \div (t.nPrime \div t.k))

\* BasicK2Tree<bool>::allSuccessorPositionsIterative: the level loop (lines
\* 2639-2660) is the text of lines 1014-1038; the leaf loop tests L_[y]
successorsBool(t, p) ==
    IF Len(t.L) = 0
    THEN <<>>
    ELSE IF Len(t.T) = 0
         THEN SelectSeq([i \in 1 .. t.nPrime |-> i - 1],
                        LAMBDA c : Truthy(t.L[p * t.nPrime + c + 1]))
         ELSE LET n0    == t.nPrime \div t.k
                  queue == [j \in 1 .. t.k |->
                               [dq |-> (j - 1) * n0, z |-> t.k * (p \div n0) + (j - 1)]]
                  r     == successorsLevels(t, queue, p % n0, n0 \div t.k)
                  found == Flatten([x \in 1 .. Len(r.queue) |->
                               IF t.T[r.queue[x].z + 1] = 1
                               THEN SelectSeq(
                                        [j \in 1 .. t.k |->
                                            [col |-> r.queue[x].dq + (j - 1) * r.n,
                                             y   |-> rank(t.T, r.queue[x].z + 1) * t.k * t.k
                                                         + t.k * (r.relP \div r.n)
                                                         - Len(t.T) + (j - 1)]],
                                        LAMBDA e : Truthy(t.L[e.y + 1]))
                               ELSE <<>>])
              IN  [x \in 1 .. Len(found) |-> found[x].col]

\* BasicK2Tree<bool>::predecessors
RECURSIVE predecessors(_, _, _, _, _)
predecessors(t, n, q, p, z) ==
    IF z >= Len(t.T)
    THEN IF Truthy(t.L[z - Len(t.T) + 1]) THEN <<p>> ELSE <<>>
    ELSE IF t.T[z + 1] = 1
         THEN LET y == rank(t.T, z + 1) * t.k * t.k + q \div (n \div t.k)
              IN  Flatten([i \in 1 .. t.k |->
                      predecessors(t, n \div t.k, q % (n \div t.k),
                                   p + (n \div t.k) * (i - 1), y + (i - 1) * t.k)])
         ELSE <<>>

predecessorsInit(t, q) ==
    IF Len(t.L) # 0
    THEN LET y == q \div (t.nPrime \div t.k)
         IN  Flatten([i \in 1 .. t.k |->
                 predecessors(t, t.nPrime \div t.k, q % (t.nPrime \div t.k),
                              (t.nPrime \div t.k) * (i - 1), y + (i - 1) * t.k)])
    ELSE <<>>

\* BasicK2Tree<bool>::linkInRangeInit / linkInRange: lines 2945-3018 are the
\* text of elemInRangeInit / elemInRange (lines 1681-1754) under other names
linkInRangeInit(t, p1, p2, q1, q2) == elemInRangeInit(t, p1, p2, q1, q2)

\* BasicK2Tree<bool>::firstSuccessorPositionIterative: one iteration of its
\* stack loop
firstSuccessorStepBool(t, stack) ==
    LET cur  == stack[Len(stack)]
        rest == SubSeq(stack, 1, Len(stack) - 1)
    IN  IF cur.j = t.k
        THEN [done |-> FALSE, result |-> t.nPrime, stack |-> rest]
        ELSE IF cur.z >= Len(t.T)
             THEN IF Truthy(t.L[cur.z - Len(t.T) + 1])
                  THEN [done |-> TRUE, result |-> cur.dq, stack |-> stack]
                  ELSE [done |-> FALSE, result |-> t.nPrime,
                        stack |-> Append(rest, advance(cur))]
             ELSE IF t.T[cur.z + 1] = 1
                  THEN [done |-> FALSE, result |-> t.nPrime,
                        stack |-> Append(Append(rest, advance(cur)),
                                    [nr |-> cur.nr \div t.k, nc |-> cur.nc \div t.k,
                                     p  |-> cur.p % (cur.nr \div t.k), dq |-> cur.dq,
                                     z  |-> rank(t.T, cur.z + 1) * t.k * t.k
                                                + t.k * (cur.p \div (cur.nr \div t.k)),
                                     j  |-> 0])]
                  ELSE [done |-> FALSE, result |-> t.nPrime,
                        stack |-> Append(rest, advance(cur))]

RECURSIVE firstSuccessorLoopBool(_, _)
firstSuccessorLoopBool(t, stack) ==
    IF Len(stack) = 0
    THEN t.nPrime
    ELSE LET r == firstSuccessorStepBool(t, stack)
         IN  IF r.done THEN r.result ELSE firstSuccessorLoopBool(t, r.stack)

firstSuccessorPositionIterativeBool(t, p) ==
    IF Len(t.L) = 0
    THEN t.nPrime
    ELSE IF Len(t.T) = 0
         THEN LET hits == {i \in 0 .. t.nPrime - 1 : Truthy(t.L[p * t.nPrime + i + 1])}
              IN  IF hits = {} THEN t.nPrime
                  ELSE CHOOSE i \in hits : \A x \in hits : i <= x
         ELSE firstSuccessorLoopBool(t,
                  <<[nr |-> t.nPrime \div t.k, nc |-> t.nPrime \div t.k,
                     p  |-> p % (t.nPrime \div t.k), dq |-> 0,
                     z  |-> t.k * (p \div (t.nPrime \div t.k)), j |-> 0]>>)

\* BasicK2Tree<bool>::countLinks: the sum of the bits of L_
RECURSIVE countLinksFrom(_, _)
countLinksFrom(L, i) == IF i > Len(L) THEN 0 ELSE L[i] + countLinksFrom(L, i + 1)

countLinks(t) == countLinksFrom(t.L, 1)

\* the interface of BasicK2Tree<bool> (lines 2014-2207); true is 1
areRelated(t, i, j) == checkLinkInit(t, i, j)

getSuccessors(t, i) == successorsBool(t, i)

getPredecessors(t, j) == predecessorsInit(t, j)

containsLink(t, i1, i2, j1, j2) == linkInRangeInit(t, i1, i2, j1, j2)

getFirstSuccessorBool(t, i) == firstSuccessorPositionIterativeBool(t, i)

\* the "general methods" overridden for bool (lines 2068-2167)
isNotNullBool(t, i, j) == areRelated(t, i, j)

getElementBool(t, i, j) == IF areRelated(t, i, j) THEN 1 ELSE 0

getSuccessorElementsBool(t, i) == Rep(Len(getSuccessors(t, i)), 1)

getSuccessorValuedPositionsBool(t, i) ==
    [x \in 1 .. Len(getSuccessors(t, i)) |-> <<i, getSuccessors(t, i)[x], 1>>]

getPredecessorElementsBool(t, j) == Rep(Len(getPredecessors(t, j)), 1)

getElementsInRangeBool(t, i1, i2, j1, j2) == Rep(Len(rangeInit(t, i1, i2, j1, j2)), 1)

getValuedPositionsInRangeBool(t, i1, i2, j1, j2) ==
    [x \in 1 .. Len(rangeInit(t, i1, i2, j1, j2)) |->
        <<rangeInit(t, i1, i2, j1, j2)[x][1], rangeInit(t, i1, i2, j1, j2)[x][2], 1>>]

getAllElementsBool(t) == Rep(countLinks(t), 1)

getAllPositionsBool(t) == rangeInit(t, 0, t.nPrime - 1, 0, t.nPrime - 1)

getAllValuedPositionsBool(t) ==
    getValuedPositionsInRangeBool(t, 0, t.nPrime - 1, 0, t.nPrime - 1)

containsElementBool(t, i1, i2, j1, j2) == linkInRangeInit(t, i1, i2, j1, j2)

countElementsBool(t) == countLinks(t)

(***************************************************************************)
(* The public interface (lines 252-443).                                   *)
(***************************************************************************)
isNotNull(t, i, j) == checkInit(t, i, j)

getElement(t, i, j) == getInit(t, i, j)

getSuccessorElements(t, i) == allSuccessorElementsIterative(t, i)

getSuccessorPositions(t, i) == allSuccessorPositionsIterative(t, i)

getSuccessorValuedPositions(t, i) == allSuccessorValuedPositionsIterative(t, i)

getPredecessorPositions(t, j) == predecessorsPosInit(t, j)

getPositionsInRange(t, i1, i2, j1, j2) == rangePosInit(t, i1, i2, j1, j2)

getValuedPositionsInRange(t, i1, i2, j1, j2) == rangeValPosInit(t, i1, i2, j1, j2)

getAllPositions(t) == getPositionsInRange(t, 0, t.nPrime - 1, 0, t.nPrime - 1)

getAllValuedPositions(t) == getValuedPositionsInRange(t, 0, t.nPrime - 1, 0, t.nPrime - 1)

containsElement(t, i1, i2, j1, j2) == elemInRangeInit(t, i1, i2, j1, j2)

getFirstSuccessor(t, i) == firstSuccessorPositionIterative(t, i)

\* BasicK2Tree<bool>::getRange
getRange(t, i1, i2, j1, j2) == rangeInit(t, i1, i2, j1, j2)

(***************************************************************************)
(* The input relations.                                                    *)
(***************************************************************************)
Cells(rows, cols) == (0 .. rows - 1) \X (0 .. cols - 1)

\* the rows x cols matrices with at most MaxCells cells different from null
MatricesOf(rows, cols, null) ==
    { [rows |-> rows, cols |-> cols,
       cell |-> [i \in 0 .. rows - 1 |-> [j \in 0 .. cols - 1 |->
                   IF <<i, j>> \in DOMAIN f THEN f[<<i, j>>] ELSE null]]] :
      f \in UNION { [S -> Vals \ {null}] :
                    S \in { S \in SUBSET Cells(rows, cols) :
                            Cardinality(S) <= MaxCells } } }

\* the input matrices: the empty matrix (no rows) and every shape up to
\* MaxSide x MaxSide
Matrices(null) ==
    MatricesOf(0, 0, null)
    \cup UNION { MatricesOf(rows, cols, null) : rows \in 1 .. MaxSide, cols \in 1 .. MaxSide }

\* the cells of m that differ from null, as a set of [row, col, val]
Relation(m, null) ==
    {[row |-> c[1], col |-> c[2], val |-> m.cell[c[1]][c[2]]] :
        c \in {c \in Cells(m.rows, m.cols) : m.cell[c[1]][c[2]] # null}}

\* the relation of m as row-adjacency lists: one list per row of m, its
\* non-null cells as [first, second] = [column, value] in column order
ListsOf(m, null) ==
    [r \in 1 .. m.rows |->
        LET js == SelectSeq([j \in 1 .. m.cols |-> j - 1],
                            LAMBDA j : m.cell[r - 1][j] # null)
        IN  [x \in 1 .. Len(js) |-> [first |-> js[x], second |-> m.cell[r - 1][js[x]]]]]

\* the sequences without repetition that enumerate the set S
RECURSIVE Orders(_)
Orders(S) ==
    IF S = {} THEN {<<>>}
    ELSE UNION {{<<e>> \o o : o \in Orders(S \ {e})} : e \in S}

\* the relation of m as a list of triples, in any order
PairsOf(m, null) == Orders(Relation(m, null))

\* what a cursor moved past end() may dereference to: a pair whose column
\* matches no cell (-1) or matches column 1
Stray == {[first |-> c, second |-> v] : c \in {-1, 1}, v \in Vals}

\* what mat[0].size() may read (line 97) when mat has no rows: mat[0] is then
\* no element of the vector, and its size is whatever the storage holds, here
\* 0 or a stale size larger than every arity
StaleSizes == {0, MaxSide + 1}

\* the matrix as the matrix constructor reads it
MatrixAsRead(m) ==
    IF m.rows = 0 THEN {[m EXCEPT !.cols = c] : c \in StaleSizes} ELSE {m}

\* every instance some constructor builds from the relation of m
Built(m, k, null) ==
    {NewFromMatrix(mm, k, null) : mm \in MatrixAsRead(m)}
    \cup
    {NewFromListsViaTree(ListsOf(m, null), k, null),
     NewFromListsDynamicBitmaps(ListsOf(m, null), k, null)}
    \cup {NewFromListsCursors(ListsOf(m, null), k, null, g) : g \in Stray}
    \cup {NewFromPairs(ps, k, null) : ps \in PairsOf(m, null)}

Self == Tree(k_, null_, h_, T_, L_)

\* no second instance
NoInstance == [k |-> 0]

\* a copy that leaves null_ value-initialised instead of copying it
CopyWithoutNull(other) == Tree(other.k, ElemDefault, other.h, other.T, other.L)

\* BasicK2Tree(const BasicK2Tree& other), operator=, clone(): the scalars and
\* the vectors T_ and L_ are copied by value; R_ is built over the new T_
CopyConstruct(other) == Tree(other.k, other.null, other.h, other.T, other.L)

\* the threads, and the activation record of a thread that runs no query:
\* pc is "idle", "first" (inside the stack loop of
\* firstSuccessorPositionIterative), "succ" (inside the level loop of
\* allSuccessorPositionsIterative) or "done"; i is the row asked for; stack,
\* queue, relP and n are the locals of the two routines; result is the
\* sequence returned (of length 1 for getFirstSuccessor)
Readers == 1 .. MaxReaders

Idle ==
    [pc |-> "idle", op |-> "none", i |-> 0, stack |-> <<>>, queue |-> <<>>,
     relP |-> 0, n |-> 0, result |-> <<>>]

\* the locals of every thread kept in one place, as function-static ones are
localsShared(rs, r) == rs[1]

\* the locals a thread works on: automatic variables of its own activation
localsOf(rs, r) == rs[r]

\* no constructor is running: alg is "none", "inplace" (buildFromListsInplace)
\* or "bitmaps" (buildFromListsDynamicBitmaps); pc is "run" or "done"; input
\* is the triple list handed to the constructor, pairs the same list as the
\* builder has reordered it so far, queue the FIFO of subproblems, T the
\* local std::vector<bool> T, at the number of input entries inserted so far
NoBuild ==
    [alg |-> "none", pc |-> "done", input |-> <<>>, pairs |-> <<>>, queue |-> <<>>,
     T |-> <<>>, at |-> 0]

\* the instance t, built from m, before any call
Constructed(m, t) ==
    /\ mat = m
    /\ k_ = t.k
    /\ null_ = t.null
    /\ h_ = t.h
    /\ nPrime_ = t.nPrime
    /\ T_ = t.T
    /\ L_ = t.L
    /\ calls = 0
    /\ copy = NoInstance
    /\ readers = [r \in Readers |-> Idle]
    /\ build = NoBuild

Init ==
    \E k \in Ks, null \in Nulls :
      \E m \in Matrices(null) :
        \E t \in Built(m, k, null) : Constructed(m, t)

\* Init, or an instance of height 3 built from a DeepSide x DeepSide matrix
InitDeep ==
    \/ Init
    \/ \E null \in Nulls :
         \E m \in MatricesOf(DeepSide, DeepSide, null) :
           \E t \in Built(m, 2, null) : Constructed(m, t)

\* setNull(i, j)
SetNull(i, j) ==
    /\ calls < MaxCalls
    /\ L_' = setInit(Self, i, j)
    /\ calls' = calls + 1
    /\ UNCHANGED <<mat, k_, null_, h_, nPrime_, T_, copy, readers, build>>

\* copy = instance.clone(), BasicK2Tree copy(instance), or copy = instance on
\* a default-constructed copy (operator= runs the statements of the copy
\* constructor unless it is a self-assignment, which changes nothing)
Clone ==
    /\ copy = NoInstance
    /\ copy' = CopyConstruct(Self)
    /\ UNCHANGED <<mat, k_, null_, h_, nPrime_, T_, L_, calls, readers, build>>

\* copy.setNull(i, j)
SetNullCopy(i, j) ==
    /\ copy # NoInstance
    /\ calls < MaxCalls
    /\ copy' = [copy EXCEPT !.L = setInit(copy, i, j)]
    /\ calls' = calls + 1
    /\ UNCHANGED <<mat, k_, null_, h_, nPrime_, T_, L_, readers, build>>

Next == \E i \in 0 .. nPrime_ - 1, j \in 0 .. nPrime_ - 1 : SetNull(i, j)

Spec == Init /\ [][Next]_vars

SpecDeep == InitDeep /\ [][Next]_vars

\* thread r calls getFirstSuccessor(i): lines 1230-1244
BeginFirst(r, i) ==
    /\ readers[r].pc = "idle"
    /\ readers' = [readers EXCEPT ![r] =
           IF Len(L_) = 0
           THEN [Idle EXCEPT !.pc = "done", !.op = "first", !.i = i,
                             !.result = <<nPrime_>>]
           ELSE IF Len(T_) = 0
                THEN [Idle EXCEPT !.pc = "done", !.op = "first", !.i = i,
                                  !.result = <<firstInRow(Self, i * nPrime_, 0)>>]
                ELSE [Idle EXCEPT !.pc = "first", !.op = "first", !.i = i,
                        !.stack = <<[nr |-> nPrime_ \div k_, nc |-> nPrime_ \div k_,
                                     p  |-> i % (nPrime_ \div k_), dq |-> 0,
                                     z  |-> k_ * (i \div (nPrime_ \div k_)),
                                     j  |-> 0]>>]]
    /\ UNCHANGED <<mat, k_, null_, h_, nPrime_, T_, L_, calls, copy, build>>

\* one iteration of the stack loop of thread r: lines 1246-1277
StepFirst(r) ==
    /\ readers[r].pc = "first"
    /\ LET stack == localsOf(readers, r).stack
       IN  readers' = [readers EXCEPT ![r] =
               IF Len(stack) = 0
               THEN [@ EXCEPT !.pc = "done", !.result = <<nPrime_>>]
               ELSE LET s == firstSuccessorStep(Self, stack)
                    IN  IF s.done
                        THEN [@ EXCEPT !.pc = "done", !.stack = <<>>,
                                       !.result = <<s.result>>]
                        ELSE [@ EXCEPT !.stack = s.stack]]
    /\ UNCHANGED <<mat, k_, null_, h_, nPrime_, T_, L_, calls, copy, build>>

\* thread r calls getSuccessorPositions(i): lines 990-1011
BeginSucc(r, i) ==
    /\ readers[r].pc = "idle"
    /\ readers' = [readers EXCEPT ![r] =
           IF Len(L_) = 0 \/ Len(T_) = 0
           THEN [Idle EXCEPT !.pc = "done", !.op = "succ", !.i = i,
                             !.result = allSuccessorPositionsIterative(Self, i)]
           ELSE [Idle EXCEPT !.pc = "succ", !.op = "succ", !.i = i,
                   !.queue = AsSeq([j \in 1 .. k_ |->
                                 [dq |-> (j - 1) * (nPrime_ \div k_),
                                  z  |-> k_ * (i \div (nPrime_ \div k_)) + (j - 1)]],
                                 k_),
                   !.relP = i % (nPrime_ \div k_),
                   !.n = (nPrime_ \div k_) \div k_]]
    /\ UNCHANGED <<mat, k_, null_, h_, nPrime_, T_, L_, calls, copy, build>>

\* one level of the level loop of thread r, or its leaf loop: lines 1014-1059
StepSucc(r) ==
    /\ readers[r].pc = "succ"
    /\ LET my == localsOf(readers, r)
       IN  readers' = [readers EXCEPT ![r] =
               IF my.n > 1
               THEN [@ EXCEPT !.queue = successorsNextLevel(Self, my.queue, my.relP, my.n),
                              !.relP = my.relP % my.n,
                              !.n = my.n \div k_]
               ELSE LET s == successorsLeaves(Self, readers[r].i, my.queue, my.relP, my.n)
                    IN  [@ EXCEPT !.pc = "done", !.queue = <<>>, !.relP = 0, !.n = 0,
                                  !.result = AsSeq([x \in 1 .. Len(s) |-> s[x].col],
                                                   Len(s))]]
    /\ UNCHANGED <<mat, k_, null_, h_, nPrime_, T_, L_, calls, copy, build>>

\* the instances the readers run on: built by the matrix constructor from a
\* MaxSide x MaxSide matrix
InitReaders ==
    \E k \in Ks, null \in Nulls :
      \E m \in MatricesOf(MaxSide, MaxSide, null) :
        Constructed(m, NewFromMatrix(m, k, null))

\* threads running queries on one instance, no setNull in flight
NextReaders ==
    \E r \in Readers :
        \/ \E i \in 0 .. nPrime_ - 1 : BeginFirst(r, i)
        \/ StepFirst(r)
        \/ \E i \in 0 .. nPrime_ - 1 : BeginSucc(r, i)
        \/ StepSucc(r)

SpecReaders == InitReaders /\ [][NextReaders]_vars

\* one thread running getFirstSuccessor on an instance of height 1 to 3 built
\* by the matrix constructor
InitFirst ==
    \/ InitReaders
    \/ \E null \in Nulls :
         \E m \in MatricesOf(DeepSide, DeepSide, null) :
           Constructed(m, NewFromMatrix(m, 2, null))

NextFirst ==
    \/ \E i \in 0 .. nPrime_ - 1 : BeginFirst(1, i)
    \/ StepFirst(1)

\* the thread is scheduled until its call returns
SpecFirst == InitFirst /\ [][NextFirst]_vars /\ WF_vars(StepFirst(1))

\* two instances: the built one and its copy, each taking setNull calls
NextClone ==
    \/ Clone
    \/ \E i \in 0 .. nPrime_ - 1, j \in 0 .. nPrime_ - 1 : SetNull(i, j)
    \/ \E i \in 0 .. nPrime_ - 1, j \in 0 .. nPrime_ - 1 : SetNullCopy(i, j)

SpecClone == Init /\ [][NextClone]_vars

(***************************************************************************)
(* The triple-list constructor taken one loop iteration at a time.         *)
(***************************************************************************)
\* the cells the triples of an input list name: three cells of the first
\* leaf block and two cells of other quadrants, whose index DeepSide - 1 makes
\* the tree of height 3 under arity 2 and of height 2 under arity 3
TripleCells ==
    {<<0, 0>>, <<0, 1>>, <<1, 0>>, <<1, DeepSide - 1>>, <<DeepSide - 1, DeepSide - 1>>}

Triples == {[row |-> c[1], col |-> c[2], val |-> v] : c \in TripleCells, v \in Vals}

\* the input lists: up to MaxTriples triples in any order, repeated cells and
\* null values included
TripleLists == UNION {{AsSeq(f, n) : f \in [1 .. n -> Triples]} : n \in 0 .. MaxTriples}

\* the instance is built from a triple list, not from a matrix
NoMatrix == [rows |-> 0, cols |-> 0, cell |-> <<>>]

\* BasicK2Tree(pairs, k, null) up to the call of buildFromListsInplace (lines
\* 207-223) and that call up to its loop (lines 774-781)
InplaceStart(k, null, ps) ==
    /\ mat = NoMatrix
    /\ k_ = k
    /\ null_ = null
    /\ h_ = Max(1, logK(pairsMaxIndex(ps) + 1, k))
    /\ nPrime_ = Pow(k, Max(1, logK(pairsMaxIndex(ps) + 1, k)))
    /\ T_ = <<>>
    /\ L_ = <<>>
    /\ calls = 0
    /\ copy = NoInstance
    /\ readers = [r \in Readers |-> Idle]
    /\ build = [NoBuild EXCEPT
                   !.alg = "inplace",
                   !.pc = IF Len(ps) # 0 THEN "run" ELSE "done",
                   !.input = ps,
                   !.pairs = ps,
                   !.queue = IF Len(ps) # 0
                             THEN <<[firstRow |-> 0,
                                     lastRow  |-> Pow(k, Max(1, logK(pairsMaxIndex(ps) + 1, k))) - 1,
                                     firstCol |-> 0,
                                     lastCol  |-> Pow(k, Max(1, logK(pairsMaxIndex(ps) + 1, k))) - 1,
                                     left |-> 0, right |-> Len(ps)]>>
                             ELSE <<>>]

InitInplace ==
    \E k \in Ks, null \in Nulls, ps \in TripleLists : InplaceStart(k, null, ps)

\* The inputs of the fair specification: lists over one cell of each of three
\* quadrants, with a value that no tested null equals, so that the progress
\* of every run is checked over a few hundred constructions.
CornerTriples ==
    {t \in Triples : /\ <<t.row, t.col>> \in {<<0, 0>>, <<1, DeepSide - 1>>, <<DeepSide - 1, DeepSide - 1>>}
                     /\ t.val \notin Nulls}

CornerTripleLists ==
    UNION {{AsSeq(f, n) : f \in [1 .. n -> CornerTriples]} : n \in 0 .. MaxTriples}

InitInplaceFair ==
    \E k \in Ks, null \in Nulls, ps \in CornerTripleLists : InplaceStart(k, null, ps)

\* the locals of the running builder, as inplaceStep takes them
Working == [queue |-> build.queue, pairs |-> build.pairs, T |-> build.T, L |-> L_]

\* one iteration of "while (!queue.empty())", lines 783-824
InplaceStep ==
    /\ build.alg = "inplace"
    /\ build.pc = "run"
    /\ Len(build.queue) > 0
    /\ LET w == inplaceStep(Working, k_)
       IN  /\ build' = [build EXCEPT !.queue = w.queue, !.pairs = w.pairs, !.T = w.T]
           /\ L_' = w.L
    /\ UNCHANGED <<mat, k_, null_, h_, nPrime_, T_, calls, copy, readers>>

\* the queue is empty: T is moved into T_ (lines 828-829) and the constructor
\* returns
InplaceFinish ==
    /\ build.alg = "inplace"
    /\ build.pc = "run"
    /\ Len(build.queue) = 0
    /\ T_' = build.T
    /\ build' = [build EXCEPT !.pc = "done"]
    /\ UNCHANGED <<mat, k_, null_, h_, nPrime_, L_, calls, copy, readers>>

NextInplace == InplaceStep \/ InplaceFinish

SpecInplace == InitInplace /\ [][NextInplace]_vars

\* the constructor runs until it returns
SpecInplaceFair == InitInplaceFair /\ [][NextInplace]_vars /\ WF_vars(NextInplace)

(***************************************************************************)
(* The dynamic-bitmap builder (mode 2, h_ >= 2) taken one insertion at a   *)
(* time.                                                                   *)
(***************************************************************************)
\* the row lists that hold the triples of ps: one list per row up to the last
\* row named, the entries of a row as [first, second] = [column, value] in
\* the order of ps (columns in any order, repeated and null entries included)
ListsOfTriples(ps) ==
    [r \in 1 .. (IF Len(ps) = 0 THEN 0
                 ELSE 1 + CHOOSE m \in {ps[x].row : x \in 1 .. Len(ps)} :
                              \A x \in 1 .. Len(ps) : ps[x].row <= m) |->
        LET es == SelectSeq(ps, LAMBDA tr : tr.row = r - 1)
        IN  AsSeq([x \in 1 .. Len(es) |-> [first |-> es[x].col, second |-> es[x].val]],
                  Len(es))]

\* the entries of lists as triples, in the order the two nested loops of
\* lines 662-666 visit them
EntriesInLoopOrder(lists) ==
    Flatten(AsSeq([r \in 1 .. Len(lists) |->
                      AsSeq([x \in 1 .. Len(lists[r]) |->
                                [row |-> r - 1, col |-> lists[r][x].first,
                                 val |-> lists[r][x].second]], Len(lists[r]))],
                  Len(lists)))

\* BasicK2Tree(lists, k, 2, null) up to the loops of
\* buildFromListsDynamicBitmaps in the branch h_ > 1 (lines 127-140, 659-660)
InitBitmaps ==
    \E k \in Ks, null \in Nulls, ps \in TripleLists :
        /\ listsHeight(ListsOfTriples(ps), k) >= 2
        /\ mat = NoMatrix
        /\ k_ = k
        /\ null_ = null
        /\ h_ = listsHeight(ListsOfTriples(ps), k)
        /\ nPrime_ = Pow(k, listsHeight(ListsOfTriples(ps), k))
        /\ T_ = <<>>
        /\ L_ = <<>>
        /\ calls = 0
        /\ copy = NoInstance
        /\ readers = [r \in Readers |-> Idle]
        /\ build = [NoBuild EXCEPT
                       !.alg = "bitmaps", !.pc = "run",
                       !.input = EntriesInLoopOrder(ListsOfTriples(ps)),
                       !.pairs = EntriesInLoopOrder(ListsOfTriples(ps))]

\* one call insertInit(T, R, i, lists[i][j].first, lists[i][j].second), line 664
BitmapsInsert ==
    /\ build.alg = "bitmaps"
    /\ build.pc = "run"
    /\ build.at < Len(build.input)
    /\ LET e  == build.input[build.at + 1]
           bm == insertInit([T |-> build.T, L |-> L_], k_, null_, h_, nPrime_,
                            e.row, e.col, e.val)
       IN  /\ build' = [build EXCEPT !.T = bm.T, !.at = @ + 1]
           /\ L_' = bm.L
    /\ UNCHANGED <<mat, k_, null_, h_, nPrime_, T_, calls, copy, readers>>

\* the loops are over: T is moved into T_ (lines 669-670)
BitmapsFinish ==
    /\ build.alg = "bitmaps"
    /\ build.pc = "run"
    /\ build.at = Len(build.input)
    /\ T_' = build.T
    /\ build' = [build EXCEPT !.pc = "done"]
    /\ UNCHANGED <<mat, k_, null_, h_, nPrime_, L_, calls, copy, readers>>

NextBitmaps == BitmapsInsert \/ BitmapsFinish

SpecBitmaps == InitBitmaps /\ [][NextBitmaps]_vars

(***************************************************************************)
(* Vocabulary of the properties.                                           *)
(***************************************************************************)
\* the cells of the padded n x n matrix
Grid(n) == (0 .. n - 1) \X (0 .. n - 1)

\* the rectangles <<i1, i2, j1, j2>> of the padded n x n matrix
Rects(n) ==
    {r \in (0 .. n - 1) \X (0 .. n - 1) \X (0 .. n - 1) \X (0 .. n - 1) :
        r[1] <= r[2] /\ r[3] <= r[4]}

InRect(c, r) == r[1] <= c[1] /\ c[1] <= r[2] /\ r[3] <= c[2] /\ c[2] <= r[4]

SeqToSet(s) == {s[x] : x \in 1 .. Len(s)}

\* s lists every member of S exactly once and nothing else
ListsExactly(s, S) == SeqToSet(s) = S /\ Len(s) = Cardinality(S)

\* the instance the matrix constructor builds from the input of this run
FromMatrix == NewFromMatrix(mat, k_, null_)

\* no setNull has been applied to the instance yet
Fresh == calls = 0

(***************************************************************************)
(* C1  Matrix round trip.                                                  *)
(***************************************************************************)
\* C1: the tree the matrix constructor builds from the rows x cols matrix mat
\* reads back mat[i][j] at every cell of the matrix and null at every padding
\* cell of [0, n')^2, and getAllValuedPositions lists exactly the cells of mat
\* that differ from null, each once, with its value.
MatrixRoundTrip ==
    /\ \A c \in Grid(FromMatrix.nPrime) :
           getElement(FromMatrix, c[1], c[2]) = MatCell(mat, null_, c[1], c[2])
    /\ FromMatrix.nPrime >= Max(mat.rows, mat.cols)
    /\ ListsExactly(getAllValuedPositions(FromMatrix),
                    {<<e.row, e.col, e.val>> : e \in Relation(mat, null_)})

\* a non-square matrix with padding, two non-null cells and a non-zero null,
\* held by the instance its matrix constructor built
MatrixRoundTripWitness ==
    /\ Self = FromMatrix
    /\ mat.rows # mat.cols
    /\ nPrime_ > Max(mat.rows, mat.cols)
    /\ Cardinality(Relation(mat, null_)) = 2
    /\ null_ = 1
    /\ h_ = 2

(***************************************************************************)
(* C2  Builder equivalence.                                                *)
(***************************************************************************)
\* the last row and the last column of m hold a cell that differs from null, so
\* the matrix, its adjacency lists and its triples span the same extent
SameExtent(m, null) ==
    /\ \E j \in 0 .. m.cols - 1 : m.cell[m.rows - 1][j] # null
    /\ \E i \in 0 .. m.rows - 1 : m.cell[i][m.cols - 1] # null

\* what instance t answers to every query of the interface
Answers(t) ==
    [h        |-> t.h,
     nPrime   |-> t.nPrime,
     element  |-> [c \in Grid(t.nPrime) |-> getElement(t, c[1], c[2])],
     succs    |-> [i \in 0 .. t.nPrime - 1 |->
                      <<getSuccessorPositions(t, i), getSuccessorElements(t, i),
                        getSuccessorValuedPositions(t, i)>>],
     preds    |-> [j \in 0 .. t.nPrime - 1 |-> getPredecessorPositions(t, j)],
     range    |-> [r \in Rects(t.nPrime) |->
                      <<getPositionsInRange(t, r[1], r[2], r[3], r[4]),
                        getValuedPositionsInRange(t, r[1], r[2], r[3], r[4])>>],
     contains |-> [r \in Rects(t.nPrime) |-> containsElement(t, r[1], r[2], r[3], r[4])],
     count    |-> countElements(t),
     first    |-> [i \in 0 .. t.nPrime - 1 |-> getFirstSuccessor(t, i)]]

Present == {c \in Grid(nPrime_) : isNotNull(Self, c[1], c[2])}

\* C3: in every state reached by a constructor followed by setNull calls, for
\* all i, j in [0, n'), isNotNull(i, j) holds iff getElement(i, j) differs from
\* null.
IsNotNullIffElement ==
    \A c \in Grid(nPrime_) :
        isNotNull(Self, c[1], c[2]) <=> (getElement(Self, c[1], c[2]) # null_)

\* after a setNull call on a tree of height 2 with a non-zero null: a stored
\* leaf that is null, and a cell that is still present
IsNotNullIffElementWitness ==
    /\ calls = 1
    /\ h_ = 2
    /\ null_ = 1
    /\ \E x \in 1 .. Len(L_) : L_[x] = null_
    /\ Present # {}

(***************************************************************************)
(* C4  Range enumeration is exact.                                         *)
(***************************************************************************)
\* C4: for every rectangle i1 <= i2, j1 <= j2 inside [0, n')^2,
\* getPositionsInRange returns exactly the present cells of the rectangle, each
\* once and none outside it, and getValuedPositionsInRange returns the same
\* cells each paired with getElement; the bool specialisation's getRange does
\* the same on the trees it can hold.
RangeExact ==
    LET present == Present
        valued  == {<<c[1], c[2], getElement(Self, c[1], c[2])>> : c \in present}
        isBool  == IsBoolTree(Self)
    IN  \A r \in Rects(nPrime_) :
            /\ ListsExactly(getPositionsInRange(Self, r[1], r[2], r[3], r[4]),
                            {c \in present : InRect(c, r)})
            /\ ListsExactly(getValuedPositionsInRange(Self, r[1], r[2], r[3], r[4]),
                            {v \in valued : InRect(v, r)})
            /\ isBool => ListsExactly(getRange(Self, r[1], r[2], r[3], r[4]),
                                      {c \in present : InRect(c, r)})

\* a tree of height 2 and a rectangle that spans several quadrants, cuts
\* through one of them, and holds some but not all of the present cells
RangeExactWitness ==
    /\ h_ = 2
    /\ \E r \in Rects(nPrime_) :
           /\ r[1] = 1 /\ r[2] = 2
           /\ r[3] < r[4]
           /\ \E c \in Present : InRect(c, r)
           /\ \E c \in Present : ~InRect(c, r)

(***************************************************************************)
(* C5  Row and column enumeration is exact.                                *)
(***************************************************************************)
\* C5: for every row i of [0, n'), getSuccessorPositions(i) holds column j
\* exactly once iff isNotNull(i, j); for every column j, getPredecessorPositions(j)
\* holds row i exactly once iff isNotNull(i, j).
RowColumnExact ==
    \A i \in 0 .. nPrime_ - 1 :
        /\ ListsExactly(getSuccessorPositions(Self, i),
                        {j \in 0 .. nPrime_ - 1 : isNotNull(Self, i, j)})
        /\ ListsExactly(getPredecessorPositions(Self, i),
                        {j \in 0 .. nPrime_ - 1 : isNotNull(Self, j, i)})

\* a tree of height 3 after a setNull call: a row with two present columns
\* and a column with two present rows
RowColumnExactWitness ==
    /\ h_ = 3
    /\ calls = 1
    /\ \E i \in 0 .. nPrime_ - 1 : Len(getSuccessorPositions(Self, i)) = 2
    /\ \E j \in 0 .. nPrime_ - 1 : Len(getPredecessorPositions(Self, j)) = 2

(***************************************************************************)
(* C6  getFirstSuccessor is the minimum of the successors.                 *)
(***************************************************************************)
\* the least member of a non-empty set of naturals
MinOf(S) == CHOOSE x \in S : \A y \in S : x <= y

\* C6: in every state reached by construction followed by setNull calls, for
\* every row i of [0, n'), getFirstSuccessor(i) is the minimum of
\* getSuccessorPositions(i), or n' when that list is empty.
FirstSuccessorIsMin ==
    \A i \in 0 .. nPrime_ - 1 :
        LET succs == SeqToSet(getSuccessorPositions(Self, i))
        IN  getFirstSuccessor(Self, i) = IF succs = {} THEN nPrime_ ELSE MinOf(succs)

\* a tree of height 3 after a setNull call that nulled the first present cell
\* of a row: the first successor lies beyond the emptied leaf
FirstSuccessorIsMinWitness ==
    /\ h_ = 3
    /\ calls = 1
    /\ \E i \in 0 .. nPrime_ - 1 :
           /\ Len(getSuccessorPositions(Self, i)) >= 1
           /\ getFirstSuccessor(Self, i) > 0
           /\ \E j \in 0 .. getFirstSuccessor(Self, i) - 1 :
                  MatCell(mat, null_, i, j) # null_

(***************************************************************************)
(* C8  Order of the row and column enumerations.                           *)
(***************************************************************************)
\* s is strictly increasing
Increasing(s) == \A x \in 1 .. Len(s) - 1 : s[x] < s[x + 1]

\* C8: for every row i, getSuccessorPositions(i) is strictly increasing, and
\* getSuccessorElements(i) and getSuccessorValuedPositions(i) list, position by
\* position, the element of the same column; for every column j,
\* getPredecessorPositions(j) is strictly increasing.
RowColumnOrder ==
    \A i \in 0 .. nPrime_ - 1 :
        LET pos == getSuccessorPositions(Self, i)
            el  == getSuccessorElements(Self, i)
            vp  == getSuccessorValuedPositions(Self, i)
        IN  /\ Increasing(pos)
            /\ Len(el) = Len(pos) /\ Len(vp) = Len(pos)
            /\ \A x \in 1 .. Len(pos) :
                   /\ el[x] = getElement(Self, i, pos[x])
                   /\ vp[x] = <<i, pos[x], el[x]>>
            /\ Increasing(getPredecessorPositions(Self, i))

\* a tree of height 3: a row with present columns in both halves of the
\* matrix, whose columns each list that row as a predecessor
RowColumnOrderWitness ==
    /\ h_ = 3
    /\ \E i \in 0 .. nPrime_ - 1 :
           LET pos == getSuccessorPositions(Self, i)
           IN  /\ Len(pos) = 2 /\ pos[1] < 4 /\ pos[2] >= 4
               /\ getPredecessorPositions(Self, pos[1]) = <<i>>
               /\ getPredecessorPositions(Self, pos[2]) = <<i>>

(***************************************************************************)
(* C7  containsElement on a freshly built instance.                        *)
(***************************************************************************)
\* C7: on the instance the matrix constructor has just built (no setNull
\* applied), for every choice of null and every rectangle inside [0, n')^2,
\* containsElement is true iff some cell of the rectangle differs from null.
ContainsIffNonNull ==
    (Fresh /\ Self = FromMatrix) =>
        \A r \in Rects(nPrime_) :
            containsElement(Self, r[1], r[2], r[3], r[4])
                <=> \E c \in Grid(nPrime_) :
                        InRect(c, r) /\ MatCell(mat, null_, c[1], c[2]) # null_

(***************************************************************************)
(* C9  Order of the range enumerations.                                    *)
(***************************************************************************)
\* a comes before b in lexicographic (row, column) order
LexLess(a, b) == a[1] < b[1] \/ (a[1] = b[1] /\ a[2] < b[2])

\* the rank of cell (p, q) of an n x n matrix in the order of the leaves of the
\* tree: the k x k blocks of side n / k in row-major order, and this order
\* again inside each block
RECURSIVE BlockKey(_, _, _, _)
BlockKey(k, n, p, q) ==
    IF n = 1
    THEN 0
    ELSE ((p \div (n \div k)) * k + q \div (n \div k)) * (n \div k) * (n \div k)
             + BlockKey(k, n \div k, p % (n \div k), q % (n \div k))

\* C9 as stated: for every rectangle, getPositionsInRange and
\* getValuedPositionsInRange (hence getAllPositions and getAllValuedPositions)
\* list their positions in increasing lexicographic (row, column) order, for
\* every height h >= 1.
RangeLexicographic ==
    \A r \in Rects(nPrime_) :
        LET pos == getPositionsInRange(Self, r[1], r[2], r[3], r[4])
            vp  == getValuedPositionsInRange(Self, r[1], r[2], r[3], r[4])
        IN  /\ \A x \in 1 .. Len(pos) - 1 : LexLess(pos[x], pos[x + 1])
            /\ \A x \in 1 .. Len(vp) - 1 : LexLess(vp[x], vp[x + 1])

\* C9 amended: for every rectangle, the range enumerations list their positions
\* in increasing order of the leaves of the tree (BlockKey); when h = 1 this
\* is lexicographic (row, column) order.
RangeBlockOrder ==
    LET isBool == IsBoolTree(Self)
    IN  \A r \in Rects(nPrime_) :
            LET pos == getPositionsInRange(Self, r[1], r[2], r[3], r[4])
                vp  == getValuedPositionsInRange(Self, r[1], r[2], r[3], r[4])
                bp  == IF isBool THEN getRange(Self, r[1], r[2], r[3], r[4]) ELSE <<>>
                Key(c) == BlockKey(k_, nPrime_, c[1], c[2])
            IN  /\ \A x \in 1 .. Len(pos) - 1 : Key(pos[x]) < Key(pos[x + 1])
                /\ \A x \in 1 .. Len(vp) - 1 : Key(vp[x]) < Key(vp[x + 1])
                /\ \A x \in 1 .. Len(bp) - 1 : Key(bp[x]) < Key(bp[x + 1])
                /\ h_ = 1 => \A x \in 1 .. Len(pos) - 1 : LexLess(pos[x], pos[x + 1])

\* a tree of height 2 whose whole-matrix enumeration lists a cell of a later row
\* before a cell of an earlier row
RangeBlockOrderWitness ==
    /\ h_ = 2
    /\ LET all == getAllPositions(Self)
       IN  \E x \in 1 .. Len(all) - 1 : all[x][1] > all[x + 1][1]

(***************************************************************************)
(* C10  Effect and frame of setNull.                                       *)
(***************************************************************************)
\* the instance after the step
SelfAfter == Tree(k_', null_', h_', T_', L_')

\* what a step setNull(i, j) leaves behind
SetNullEffect(i, j) ==
    /\ getElement(SelfAfter, i, j) = null_
    /\ ~isNotNull(SelfAfter, i, j)
    /\ \A c \in Grid(nPrime_) \ {<<i, j>>} :
           getElement(SelfAfter, c[1], c[2]) = getElement(Self, c[1], c[2])
    /\ T_' = T_ /\ Len(L_') = Len(L_)
    /\ h_' = h_ /\ k_' = k_ /\ nPrime_' = nPrime_ /\ null_' = null_
    /\ Cardinality({x \in 1 .. Len(L_) : L_'[x] # L_[x]}) <= 1

\* C10: in any reachable state and for any (i, j) in [0, n')^2, after
\* setNull(i, j) the cell reads null and is not present, every other cell reads
\* what it read before, T, the length of L, h, k, n' and null are unchanged, and
\* at most one entry of L differs.
SetNullEffectAndFrame ==
    [][\A i \in 0 .. nPrime_ - 1, j \in 0 .. nPrime_ - 1 :
           SetNull(i, j) => SetNullEffect(i, j)]_vars

\* after a setNull call that overwrote a present cell of a tree of height 2:
\* the leaves differ in one entry from those of a fresh instance
SetNullEffectAndFrameWitness ==
    /\ calls = 1
    /\ h_ = 2
    /\ \E t \in Built(mat, k_, null_) :
           /\ t.T = T_
           /\ Len(t.L) = Len(L_)
           /\ Cardinality({x \in 1 .. Len(L_) : t.L[x] # L_[x]}) = 1
           /\ \E x \in 1 .. Len(L_) : t.L[x] # L_[x] /\ L_[x] = null_

(***************************************************************************)
(* C11  setNull on an absent cell.                                         *)
(***************************************************************************)
\* C11: a setNull(i, j) step taken when isNotNull(i, j) is false (empty tree,
\* descent stopped by a 0 bit of T, or a null leaf) leaves T and every entry of
\* L as they were; and after any setNull(i, j) step a second setNull(i, j)
\* would change nothing (idempotence).
SetNullAbsentNoOp ==
    [][\A i \in 0 .. nPrime_ - 1, j \in 0 .. nPrime_ - 1 :
           SetNull(i, j) =>
               /\ ~isNotNull(Self, i, j) => (T_' = T_ /\ L_' = L_)
               /\ setInit(SelfAfter, i, j) = L_']_vars

\* after a setNull call on a tree of height 2 with a 0 bit in T that left the
\* leaves of the fresh instance untouched: every builder's instance equals
\* the state, so the call fell on an absent cell
SetNullAbsentNoOpWitness ==
    /\ calls = 1
    /\ h_ = 2
    /\ \E z \in 1 .. Len(T_) : T_[z] = 0
    /\ \E x \in 1 .. Len(L_) : L_[x] # null_
    /\ \A t \in Built(mat, k_, null_) : t.T = T_ /\ t.L = L_

(***************************************************************************)
(* C12  countElements.                                                     *)
(***************************************************************************)
\* what a step setNull(i, j) does to the count: one less when the cell was
\* present, the same when it was absent
CountAfterSetNull(i, j) ==
    countElements(SelfAfter)
        = countElements(Self) - (IF isNotNull(Self, i, j) THEN 1 ELSE 0)

\* C12: countElements() is the number of cells (i, j) of [0, n')^2 with
\* isNotNull(i, j); on a freshly built instance it is the number of non-null
\* cells of the input relation; a setNull on a present cell lowers it by
\* exactly 1 and a setNull on an absent cell leaves it unchanged.
CountElementsExact ==
    /\ [](/\ countElements(Self) = Cardinality(Present)
          /\ Fresh => countElements(Self) = Cardinality(Relation(mat, null_)))
    /\ [][\A i \in 0 .. nPrime_ - 1, j \in 0 .. nPrime_ - 1 :
              SetNull(i, j) => CountAfterSetNull(i, j)]_vars

(***************************************************************************)
(* C13  Empty input.                                                       *)
(***************************************************************************)
\* every query of instance t returns the empty / null / false result
AnswersNothing(t) ==
    /\ \A c \in Grid(t.nPrime) :
           ~isNotNull(t, c[1], c[2]) /\ getElement(t, c[1], c[2]) = t.null
    /\ \A i \in 0 .. t.nPrime - 1 :
           /\ getSuccessorPositions(t, i) = <<>>
           /\ getSuccessorElements(t, i) = <<>>
           /\ getSuccessorValuedPositions(t, i) = <<>>
           /\ getPredecessorPositions(t, i) = <<>>
           /\ getFirstSuccessor(t, i) = t.nPrime
    /\ \A r \in Rects(t.nPrime) :
           /\ getPositionsInRange(t, r[1], r[2], r[3], r[4]) = <<>>
           /\ getValuedPositionsInRange(t, r[1], r[2], r[3], r[4]) = <<>>
           /\ ~containsElement(t, r[1], r[2], r[3], r[4])
    /\ countElements(t) = 0

\* C13: the instance any builder leaves behind for an empty input (a matrix
\* without rows, an empty list of row lists, an empty triple list) has h = 1,
\* n' = k, empty T and empty L, and answers every query with the empty / null /
\* false result.
EmptyInputEmptyEncoding ==
    (Fresh /\ mat.rows = 0) =>
        /\ h_ = 1 /\ nPrime_ = k_
        /\ T_ = <<>> /\ L_ = <<>>
        /\ AnswersNothing(Self)

(***************************************************************************)
(* C14  Out-of-range coordinates.                                          *)
(***************************************************************************)
\* the coordinate pairs with i >= n' or j >= n'
OutOfRange ==
    Grid(nPrime_ + Beyond) \ Grid(nPrime_)

\* C14: a point call (isNotNull, getElement, setNull) with i >= n' or j >= n'
\* never indexes L outside its bounds and is treated as absent: isNotNull is
\* false, getElement is null and setNull changes nothing, so no other cell's
\* value is returned or overwritten.
OutOfRangeAbsent ==
    \A c \in OutOfRange :
        IF leafPositionInit(Self, c[1], c[2]) < Len(L_)
        THEN /\ ~isNotNull(Self, c[1], c[2])
             /\ getElement(Self, c[1], c[2]) = null_
             /\ setInit(Self, c[1], c[2]) = L_
        ELSE FALSE

ExtentOfMatrix(m) == Max(m.rows, m.cols)

ExtentOfLists(lists) ==
    LET ends == UNION {{lists[r][x].first + 1 : x \in 1 .. Len(lists[r])} :
                          r \in 1 .. Len(lists)}
    IN  Max(Len(lists), IF ends = {} THEN 0 ELSE MinOf({e \in ends : \A d \in ends : d <= e}))

ExtentOfPairs(ps) ==
    LET ends == UNION {{ps[x].row + 1, ps[x].col + 1} : x \in 1 .. Len(ps)}
    IN  IF ends = {} THEN 0 ELSE MinOf({e \in ends : \A d \in ends : d <= e})

\* instance t has h = max(1, ceil(log_k(E))) and n' = k^h: n' is the smallest
\* power of k with exponent >= 1 that is >= E
SizedFor(t, E) ==
    /\ t.h >= 1
    /\ t.nPrime = Pow(t.k, t.h)
    /\ t.nPrime >= E /\ t.nPrime >= t.k
    /\ t.h > 1 => Pow(t.k, t.h - 1) < E

ResultAlone(rd) ==
    IF rd.op = "first"
    THEN <<getFirstSuccessor(Self, rd.i)>>
    ELSE getSuccessorPositions(Self, rd.i)

\* C17: with no setNull in flight, however the steps of the queries of several
\* threads interleave, every finished query has returned what it returns when
\* run alone on the instance; no step of a query writes T, L, h, k, n' or null.
ReadersUndisturbed ==
    /\ [](\A r \in Readers :
             readers[r].pc = "done" => readers[r].result = ResultAlone(readers[r]))
    /\ [][NextReaders => UNCHANGED <<k_, null_, h_, nPrime_, T_, L_>>]_vars

\* two finished queries of the same row of a tree of height 2, a first-successor
\* search that took the other thread's steps in between and a row enumeration
\* that found two columns
ReadersUndisturbedWitness ==
    /\ h_ = 2
    /\ readers[1].pc = "done" /\ readers[1].op = "first"
    /\ readers[2].pc = "done" /\ readers[2].op = "succ"
    /\ readers[1].i = readers[2].i
    /\ Len(readers[2].result) = 2
    /\ readers[1].result[1] = readers[2].result[1]

(***************************************************************************)
(* C18  Child blocks.                                                      *)
(***************************************************************************)
\* the k*k positions (0-based, over T followed by L) of the children of the
\* node at position z of T
ChildBlock(t, z) ==
    {rank(t.T, z + 1) * t.k * t.k + c : c \in 0 .. t.k * t.k - 1}

\* C18: in every instance with non-empty T, built by any builder and after
\* any setNull calls, |T| and |L| are multiples of k^2, |T| + |L| =
\* k^2 * (1 + number of 1 bits of T), and the 1 bits of T own pairwise disjoint
\* blocks of k^2 positions at rank1(T, z + 1) * k^2 that lie inside
\* [0, |T| + |L|), each wholly in T or wholly in L, and that together with the
\* root block cover every position.
ChildBlockInvariant ==
    Len(T_) # 0 =>
        LET kk   == k_ * k_
            ones == {z \in 0 .. Len(T_) - 1 : T_[z + 1] = 1}
        IN  /\ Len(T_) % kk = 0 /\ Len(L_) % kk = 0
            /\ Len(T_) + Len(L_) = kk * (1 + Cardinality(ones))
            /\ \A z \in ones :
                   /\ ChildBlock(Self, z) \subseteq 0 .. Len(T_) + Len(L_) - 1
                   /\ \/ ChildBlock(Self, z) \subseteq 0 .. Len(T_) - 1
                      \/ ChildBlock(Self, z) \subseteq Len(T_) .. Len(T_) + Len(L_) - 1
                   /\ \A y \in ones \ {z} : ChildBlock(Self, z) \cap ChildBlock(Self, y) = {}
            /\ (0 .. kk - 1) \cup UNION {ChildBlock(Self, z) : z \in ones}
                   = 0 .. Len(T_) + Len(L_) - 1

\* a tree of height 3 after a setNull call, with a 1 bit whose children are
\* bits of T and a 1 bit whose children are leaves
ChildBlockInvariantWitness ==
    /\ h_ = 3
    /\ calls = 1
    /\ \E z \in 0 .. Len(T_) - 1 :
           T_[z + 1] = 1 /\ ChildBlock(Self, z) \subseteq 0 .. Len(T_) - 1
    /\ \E z \in 0 .. Len(T_) - 1 :
           T_[z + 1] = 1 /\ ChildBlock(Self, z) \subseteq Len(T_) .. Len(T_) + Len(L_) - 1

(***************************************************************************)
(* C19  Bit semantics.                                                     *)
(***************************************************************************)
\* the cells of the submatrix of the node at position z of instance t: the
\* cells whose descent visits z
SubmatrixOf(t, z) ==
    {c \in Grid(t.nPrime) : z \in descentPositionsInit(t, c[1], c[2])}

\* the cells of the input relation that differ from null
NonNullCells == {<<e.row, e.col>> : e \in Relation(mat, null_)}

\* C19: on a freshly built instance of any builder, T[z] = 1 iff the submatrix
\* of the node at z holds a non-null cell of the relation, every k^2 block of L
\* holds a non-null value, and an all-null relation gives empty T and empty L.
BitSemantics ==
    Fresh =>
        /\ \A z \in 0 .. Len(T_) - 1 :
               T_[z + 1] = 1 <=> SubmatrixOf(Self, z) \cap NonNullCells # {}
        /\ \A b \in 0 .. (Len(L_) \div (k_ * k_)) - 1 :
               \E c \in 1 .. k_ * k_ : L_[b * k_ * k_ + c] # null_
        /\ NonNullCells = {} => T_ = <<>> /\ L_ = <<>>

(***************************************************************************)
(* C20  Cursor builder (mode 0).                                           *)
(***************************************************************************)
\* the cursors the mode-0 builder ends with
CursorsAfter(lists, k, null, g) ==
    buildFromLists(lists, k, null, g, listsHeight(lists, k),
                   [levels  |-> Rep(listsHeight(lists, k) - 1, <<>>), L |-> <<>>,
                    cursors |-> Rep(Len(lists), 1)],
                   Pow(k, listsHeight(lists, k)), 1, 0, 0).st.cursors

\* C20: for the column-sorted row lists of any relation, any element values
\* and any null, the mode-0 builder consumes every entry exactly once (each
\* cursor ends at the end of its row) and the built tree reads
\* getElement(i, c) = v for every entry (i, c, v) and null at every other cell.
CursorBuilderExact ==
    Fresh =>
        \A g \in Stray :
            LET lists == ListsOf(mat, null_)
                t     == NewFromListsCursors(lists, k_, null_, g)
            IN  /\ \A r \in 1 .. Len(lists) :
                       CursorsAfter(lists, k_, null_, g)[r] = Len(lists[r]) + 1
                /\ \A c \in Grid(t.nPrime) :
                       getElement(t, c[1], c[2]) = MatCell(mat, null_, c[1], c[2])
(***************************************************************************)
(* C21  Leaf blocks of the triple-list builder.                            *)
(***************************************************************************)
\* the cells named by the triples of list ps
NamedCells(ps) == {<<ps[x].row, ps[x].col>> : x \in 1 .. Len(ps)}

\* the values the triples of list ps give to cell c
ValuesAt(ps, c) == {ps[x].val : x \in {x \in 1 .. Len(ps) : <<ps[x].row, ps[x].col>> = c}}

\* the subproblem at the head of the queue is a leaf block (S <= k)
LeafAtHead ==
    /\ Len(build.queue) > 0
    /\ Head(build.queue).lastRow - Head(build.queue).firstRow + 1 <= k_

\* the block a step appends to L_ for leaf subproblem sp: a triple value at
\* the offset of every cell a triple names, null everywhere else
LeafBlockAsClaimed(sp) ==
    /\ Len(L_') = Len(L_) + k_ * k_
    /\ \A c \in (sp.firstRow .. sp.lastRow) \X (sp.firstCol .. sp.lastCol) :
           LET at == Len(L_) + (c[1] - sp.firstRow) * k_ + (c[2] - sp.firstCol) + 1
           IN  IF c \in NamedCells(build.input)
               THEN L_'[at] \in ValuesAt(build.input, c)
               ELSE L_'[at] = null_

\* the triple-list constructor has returned
InplaceDone == build.alg = "inplace" /\ build.pc = "done"

\* C21: for every null value, each leaf block the triple-list builder emits
\* holds the triple values at offset (row - firstRow) * k + (col - firstCol)
\* and null at every position no triple names; hence in the built tree every
\* cell no input triple names reads getElement = null and isNotNull = false,
\* and countElements is the number of distinct (row, col) of the triples
\* with a non-null value.
TripleLeafBlocks ==
    /\ [][(InplaceStep /\ LeafAtHead) => LeafBlockAsClaimed(Head(build.queue))]_vars
    /\ [](InplaceDone =>
            /\ \A c \in Grid(nPrime_) \ NamedCells(build.input) :
                   /\ getElement(Self, c[1], c[2]) = null_
                   /\ ~isNotNull(Self, c[1], c[2])
            /\ countElements(Self) =
                   Cardinality({<<build.input[x].row, build.input[x].col>> :
                                   x \in {x \in 1 .. Len(build.input) :
                                             build.input[x].val # null_}}))

(***************************************************************************)
(* C22  Duplicate triples.                                                 *)
(***************************************************************************)
\* the triples of list ps that name cell c, in the order of ps
NamingCell(ps, c) == SelectSeq(ps, LAMBDA tr : tr.row = c[1] /\ tr.col = c[2])

\* the value of the last triple of ps that names cell c
LastValue(ps, c) == NamingCell(ps, c)[Len(NamingCell(ps, c))].val

Intermediate == Tree(k_, null_, h_, build.T, L_)

\* the 1 bits of bit sequence T, as 0-based positions
Ones(T) == {z \in 0 .. Len(T) - 1 : T[z + 1] = 1}

\* every 1 bit of t.T owns one block of k^2 positions at rank1(T, z + 1) * k^2,
\* wholly in T or wholly in L; the blocks are disjoint and, with the root
\* block, cover T followed by L
OwnsBlocks(t) ==
    LET kk == t.k * t.k
        N  == Len(t.T) + Len(t.L)
    IN  /\ N = kk * (1 + Cardinality(Ones(t.T)))
        /\ \A z \in Ones(t.T) :
               /\ ChildBlock(t, z) \subseteq 0 .. N - 1
               /\ \/ ChildBlock(t, z) \subseteq 0 .. Len(t.T) - 1
                  \/ ChildBlock(t, z) \subseteq Len(t.T) .. N - 1
               /\ \A y \in Ones(t.T) \ {z} : ChildBlock(t, z) \cap ChildBlock(t, y) = {}
        /\ (0 .. kk - 1) \cup UNION {ChildBlock(t, z) : z \in Ones(t.T)} = 0 .. N - 1

\* the entries inserted so far
Inserted == SubSeq(build.input, 1, build.at)

\* C23: in mode 2 with h >= 2, after every single insertion the intermediate
\* T and L satisfy the child-block invariant, every cell inserted so far
\* reads back its (latest) inserted value through the rank-guided descent
\* and every other cell reads null; an insertion grows T and L by exactly one
\* k^2 block per bit it newly sets, and by nothing for the bits already set.
InsertionKeepsInvariant ==
    /\ []((build.alg = "bitmaps" /\ build.at >= 1) =>
            /\ OwnsBlocks(Intermediate)
            /\ \A c \in Grid(nPrime_) :
                   getElement(Intermediate, c[1], c[2]) =
                       IF c \in NamedCells(Inserted) THEN LastValue(Inserted, c)
                                                     ELSE null_)
    /\ [][(BitmapsInsert /\ build.at >= 1) =>
             /\ (Len(build.T') + Len(L_')) - (Len(build.T) + Len(L_))
                    = k_ * k_ * (Cardinality(Ones(build.T')) - Cardinality(Ones(build.T)))
             /\ Cardinality(Ones(build.T')) >= Cardinality(Ones(build.T))]_vars

\* in a tree of height 3 the second insertion puts its blocks in front of the
\* blocks of the first one (cell (1, 0) after cell (1, DeepSide - 1)), and a
\* third insertion follows
InsertionKeepsInvariantWitness ==
    /\ build.alg = "bitmaps"
    /\ h_ = 3
    /\ build.at = 3
    /\ <<build.input[1].row, build.input[1].col>> = <<1, DeepSide - 1>>
    /\ <<build.input[2].row, build.input[2].col>> = <<1, 0>>
    /\ build.input[1].val \notin {null_, build.input[2].val}
    /\ build.input[2].val # null_
    /\ getElement(Intermediate, 1, DeepSide - 1) = build.input[1].val
    /\ getElement(Intermediate, 1, 0) = build.input[2].val

(***************************************************************************)
(* C24  Identical encodings.                                               *)
(***************************************************************************)
\* C24: for one relation, the matrix builder, the list builders in modes 0, 1
\* and 2 and the triple-list builder produce exactly the same bit sequence T
\* (the levels concatenated in breadth-first order) and exactly the same
\* leaf sequence L.
IdenticalEncodings ==
    (Fresh /\ SameExtent(mat, null_)) =>
        \A t \in Built(mat, k_, null_) : t.T = FromMatrix.T /\ t.L = FromMatrix.L

(***************************************************************************)
(* C25  The boolean specialisation.                                        *)
(***************************************************************************)
\* m is a boolean relation matrix: at least one row, every cell false or true
BoolMatrix(m) ==
    m.rows > 0 /\ \A c \in Cells(m.rows, m.cols) : m.cell[c[1]][c[2]] \in {0, 1}

\* the BasicK2Tree<bool> instance with the bits of this state: built from mat
\* and taken through the same setNull calls (BasicK2Tree<bool>::set, lines
\* 3031-3045, writes null_ = false at the leaf the general set writes null_ to)
SelfBool == Tree(k_, 0, h_, T_, L_)

\* the rectangles the range queries are compared on
SmallRects == IF nPrime_ <= MaxSide + 1 THEN Rects(nPrime_) ELSE {}

\* C25: BasicK2Tree<bool> built from a boolean relation has the same T and
\* the same L bits as the general template built from that relation with
\* values in {0, 1} and null = 0, and answers every position and presence
\* query identically; every value-returning query returns true for exactly
\* the present positions, and getAllElements has length countLinks().
BoolSpecialization ==
    (null_ = 0 /\ BoolMatrix(mat)) =>
        /\ Fresh =>
               /\ NewFromMatrixBool(mat, k_) = FromMatrix
               /\ \A c \in Grid(nPrime_) :
                      getElementBool(NewFromMatrixBool(mat, k_), c[1], c[2])
                          = MatCell(mat, 0, c[1], c[2])
        /\ \A c \in Grid(nPrime_) :
               /\ areRelated(SelfBool, c[1], c[2]) = isNotNull(Self, c[1], c[2])
               /\ isNotNullBool(SelfBool, c[1], c[2]) = isNotNull(Self, c[1], c[2])
               /\ getElementBool(SelfBool, c[1], c[2]) = getElement(Self, c[1], c[2])
        /\ \A i \in 0 .. nPrime_ - 1 :
               /\ getSuccessors(SelfBool, i) = getSuccessorPositions(Self, i)
               /\ getSuccessorElementsBool(SelfBool, i) = getSuccessorElements(Self, i)
               /\ getSuccessorValuedPositionsBool(SelfBool, i)
                      = getSuccessorValuedPositions(Self, i)
               /\ getFirstSuccessorBool(SelfBool, i) = getFirstSuccessor(Self, i)
               /\ getPredecessors(SelfBool, i) = getPredecessorPositions(Self, i)
               /\ Len(getPredecessorElementsBool(SelfBool, i))
                      = Len(getPredecessorPositions(Self, i))
        /\ \A r \in SmallRects :
               /\ getRange(SelfBool, r[1], r[2], r[3], r[4])
                      = getPositionsInRange(Self, r[1], r[2], r[3], r[4])
               /\ getValuedPositionsInRangeBool(SelfBool, r[1], r[2], r[3], r[4])
                      = getValuedPositionsInRange(Self, r[1], r[2], r[3], r[4])
               /\ Len(getElementsInRangeBool(SelfBool, r[1], r[2], r[3], r[4]))
                      = Len(getPositionsInRange(Self, r[1], r[2], r[3], r[4]))
               /\ containsLink(SelfBool, r[1], r[2], r[3], r[4])
                      = containsElement(Self, r[1], r[2], r[3], r[4])
               /\ containsElementBool(SelfBool, r[1], r[2], r[3], r[4])
                      = containsElement(Self, r[1], r[2], r[3], r[4])
        /\ getAllPositionsBool(SelfBool) = getAllPositions(Self)
        /\ getAllValuedPositionsBool(SelfBool) = getAllValuedPositions(Self)
        /\ countLinks(SelfBool) = countElements(Self)
        /\ countElementsBool(SelfBool) = Cardinality(Present)
        /\ Len(getAllElementsBool(SelfBool)) = countLinks(SelfBool)
        /\ getAllElementsBool(SelfBool) = Rep(Cardinality(Present), 1)

\* a boolean relation with two links gives a tree of height 3; one link has
\* been set to null, the other is still answered by both classes
BoolSpecializationWitness ==
    /\ null_ = 0
    /\ BoolMatrix(mat)
    /\ h_ = 3
    /\ calls = 1
    /\ Cardinality(Relation(mat, 0)) = 2
    /\ countLinks(SelfBool) = 1
    /\ \E i \in 0 .. nPrime_ - 1 :
           /\ Len(getSuccessors(SelfBool, i)) = 1
           /\ getFirstSuccessorBool(SelfBool, i) = getSuccessors(SelfBool, i)[1]
           /\ areRelated(SelfBool, i, getSuccessors(SelfBool, i)[1])

(***************************************************************************)
(* C26  Stale containment after setNull.                                   *)
(***************************************************************************)
\* the node at position z of t.T, whose submatrix has side n and upper left
\* corner (dp, dq), and the nodes below it, each as <<z, i1, i2, j1, j2>> with
\* the rectangle that exactly covers its submatrix
RECURSIVE NodesBelow(_, _, _, _, _)
NodesBelow(t, n, dp, dq, z) ==
    IF z >= Len(t.T)
    THEN {}
    ELSE {<<z, dp, dp + n - 1, dq, dq + n - 1>>}
         \cup IF t.T[z + 1] = 1
              THEN UNION {NodesBelow(t, n \div t.k, dp + (c \div t.k) * (n \div t.k),
                                     dq + (c % t.k) * (n \div t.k),
                                     rank(t.T, z + 1) * t.k * t.k + c) :
                          c \in 0 .. t.k * t.k - 1}
              ELSE {}

\* the nodes of t.T with a 1 bit
OneNodes(t) ==
    {nd \in UNION {NodesBelow(t, t.nPrime \div t.k, (c \div t.k) * (t.nPrime \div t.k),
                              (c % t.k) * (t.nPrime \div t.k), c) :
                   c \in 0 .. t.k * t.k - 1} :
        t.T[nd[1] + 1] = 1}

\* the n x n matrix with value v on the diagonal and null elsewhere
Diagonal(n, v, null) ==
    [rows |-> n, cols |-> n,
     cell |-> [i \in 0 .. n - 1 |-> [j \in 0 .. n - 1 |-> IF i = j THEN v ELSE null]]]

\* the instance t after t.setNull(i, j)
AfterSetNull(t, i, j) == [t EXCEPT !.L = setInit(t, i, j)]

\* the scenario of the 4x4 diagonal with k = 2, after setNull(0, 0)
DiagonalScenario ==
    \A null \in Nulls : \A v \in Vals \ {null} :
        LET t == AfterSetNull(NewFromMatrix(Diagonal(2 * 2, v, null), 2, null), 0, 0)
        IN  /\ ~isNotNull(t, 0, 0)
            /\ countElements(t) = 3
            /\ containsElement(t, 0, 1, 0, 1)

\* C26: setNull never clears a bit of T, so containsElement on the rectangle
\* that exactly covers the submatrix of a 1 bit of T returns true whatever
\* setNull calls were made, also when getPositionsInRange on that rectangle
\* is empty, and so does containsElement on the whole matrix while L is not
\* empty; on the 4x4 diagonal with k = 2, after setNull(0, 0), isNotNull(0, 0)
\* is false, countElements is 3 and containsElement(0, 1, 0, 1) is true.
StaleContainment ==
    /\ [][T_' = T_]_vars
    /\ [](/\ \A nd \in OneNodes(Self) :
                 /\ SubmatrixOf(Self, nd[1]) = {c \in Grid(nPrime_) : InRect(c, Tail(nd))}
                 /\ containsElement(Self, nd[2], nd[3], nd[4], nd[5])
          /\ Len(L_) # 0 => containsElement(Self, 0, nPrime_ - 1, 0, nPrime_ - 1)
          /\ DiagonalScenario)

\* in a tree of height 3 the only present cell under some 1 bit of T has been
\* set to null: the range over the bit's submatrix is empty, containsElement
\* on it is true
StaleContainmentWitness ==
    /\ h_ = 3
    /\ calls = 1
    /\ \E nd \in OneNodes(Self) :
           /\ getPositionsInRange(Self, nd[2], nd[3], nd[4], nd[5]) = <<>>
           /\ containsElement(Self, nd[2], nd[3], nd[4], nd[5])
           /\ nd[3] - nd[2] + 1 = k_

(***************************************************************************)
(* C27  No false negatives of containsElement.                             *)
(***************************************************************************)
\* rectangle r contains the whole submatrix of a 1 bit of T_, or is the whole
\* matrix: the case in which elemInRange answers without reading a leaf
CoversOneNode(r) ==
    \/ r = <<0, nPrime_ - 1, 0, nPrime_ - 1>>
    \/ \E nd \in OneNodes(Self) :
           r[1] <= nd[2] /\ nd[3] <= r[2] /\ r[3] <= nd[4] /\ nd[5] <= r[4]

\* C27: in every state reached by a constructor followed by setNull calls, a
\* rectangle that contains a cell with isNotNull true makes containsElement
\* true, and containsElement is true on a rectangle without any present cell
\* only through the return for a covered submatrix.
NoFalseNegatives ==
    \A r \in Rects(nPrime_) :
        LET present == \E c \in Present : InRect(c, r)
            answer  == containsElement(Self, r[1], r[2], r[3], r[4])
        IN  /\ present => answer
            /\ (answer /\ ~present) => CoversOneNode(r)

(***************************************************************************)
(* C28  Iterative and recursive successor routines agree.                  *)
(***************************************************************************)
\* C28: in every reachable state and for every row i of [0, n'), the
\* level-by-level traversal allSuccessorPositionsIterative produces the same
\* sequence, in the same order, as the recursive descent successorsPosInit,
\* and firstSuccessorPositionIterative returns the value of
\* firstSuccessorInit.
IterativeMatchesRecursive ==
    \A i \in 0 .. nPrime_ - 1 :
        /\ allSuccessorPositionsIterative(Self, i) = successorsPosInit(Self, i)
        /\ firstSuccessorPositionIterative(Self, i) = firstSuccessorInit(Self, i)

\* a tree of height 3 after a setNull, with a row whose two successors lie in
\* different subtrees of the root
IterativeMatchesRecursiveWitness ==
    /\ h_ = 3
    /\ calls = 1
    /\ \E i \in 0 .. nPrime_ - 1 :
           /\ Len(successorsPosInit(Self, i)) = 2
           /\ successorsPosInit(Self, i)[1] < nPrime_ \div k_
           /\ successorsPosInit(Self, i)[2] >= nPrime_ \div k_
           /\ firstSuccessorInit(Self, i) = successorsPosInit(Self, i)[1]

(***************************************************************************)
(* C29  The stack loop of firstSuccessorPositionIterative.                 *)
(***************************************************************************)
\* the stack of the thread that runs the loop, the top last
FirstStack == readers[1].stack

\* frame x of the stack: its cursor j is at most k, its dq and z are their
\* initial values plus j * nc and j; the initial values are those of the
\* emplace that made the frame (line 1244 for the bottom frame, line 1264,
\* evaluated on the frame below just before that frame was advanced, for the
\* others), which is made only for a 1 bit of T
FrameAsPushed(x) ==
    LET f == FirstStack[x]
    IN  /\ f.j <= k_
        /\ IF x = 1
           THEN /\ f.nc = nPrime_ \div k_
                /\ f.dq = f.j * f.nc
                /\ f.z = k_ * (readers[1].i \div (nPrime_ \div k_)) + f.j
           ELSE LET g == FirstStack[x - 1]
                IN  /\ g.z - 1 < Len(T_)
                    /\ T_[g.z] = 1
                    /\ f.nc = (g.nc \div k_)
                    /\ f.dq = (g.dq - g.nc) + f.j * f.nc
                    /\ f.z = rank(T_, g.z) * k_ * k_
                                 + k_ * (g.p \div (g.nr \div k_)) + f.j

\* an iteration that pushes does so for a position z < |T| with T[z] = 1,
\* and an iteration that pops does so for a frame with j = k
PushAndPopAsClaimed ==
    LET top == FirstStack[Len(FirstStack)]
    IN  /\ Len(readers'[1].stack) > Len(FirstStack) =>
               /\ top.j < k_
               /\ top.z < Len(T_)
               /\ T_[top.z + 1] = 1
               /\ Len(readers'[1].stack) = Len(FirstStack) + 1
        /\ (Len(readers'[1].stack) < Len(FirstStack) /\ readers'[1].pc = "first") =>
               /\ top.j = k_
               /\ readers'[1].stack = SubSeq(FirstStack, 1, Len(FirstStack) - 1)

\* the columns of the non-null leaves of row i
Successors(i) == {c[2] : c \in {c \in Present : c[1] = i}}

\* C29: throughout firstSuccessorPositionIterative every frame has j <= k,
\* dq and z equal to their initial values plus j * nc and j, and the stack
\* holds at most h frames; a frame is pushed only for a position z < |T| with
\* T[z] = 1 and popped only when j = k; the loop terminates for every row and
\* returns the column of the first non-null leaf of the row in left-to-right
\* order, or n' when the stack empties.
StackLoopInvariant ==
    /\ [](readers[1].pc = "first" =>
            /\ Len(FirstStack) <= h_
            /\ \A x \in 1 .. Len(FirstStack) : FrameAsPushed(x))
    /\ [][(StepFirst(1) /\ Len(FirstStack) > 0) => PushAndPopAsClaimed]_vars
    /\ [](readers[1].pc = "done" =>
            readers[1].result[1] = IF Successors(readers[1].i) = {} THEN nPrime_
                                   ELSE MinOf(Successors(readers[1].i)))
    /\ (readers[1].pc = "first") ~> (readers[1].pc = "done")

\* in a tree of height 3 the stack holds three frames, the one at the bottom
\* already advanced past its first child
StackLoopInvariantWitness ==
    /\ h_ = 3
    /\ readers[1].pc = "first"
    /\ Len(FirstStack) = 3
    /\ FirstStack[1].j = 2
    /\ FirstStack[3].j = 1

(***************************************************************************)
(* C30  The queue of the in-place triple builder.                          *)
(***************************************************************************)
\* n is a power of k that is at least k
IsPowerFrom(n, k) == \E e \in 1 .. h_ : n = Pow(k, e)

\* triple tr lies in the row and column range of subproblem sp
InRange(tr, sp) ==
    /\ sp.firstRow <= tr.row /\ tr.row <= sp.lastRow
    /\ sp.firstCol <= tr.col /\ tr.col <= sp.lastCol

\* how many entries of sequence ps equal e
Occurrences(ps, e) == Cardinality({x \in 1 .. Len(ps) : ps[x] = e})

\* subproblem sp as the claim describes it
SubproblemAsClaimed(sp) ==
    /\ sp.lastRow - sp.firstRow = sp.lastCol - sp.firstCol
    /\ IsPowerFrom(sp.lastRow - sp.firstRow + 1, k_)
    /\ 0 <= sp.left /\ sp.left < sp.right /\ sp.right <= Len(build.pairs)
    /\ \A x \in sp.left + 1 .. sp.right : InRange(build.pairs[x], sp)
    /\ sp.right - sp.left
           = Cardinality({x \in 1 .. Len(build.input) : InRange(build.input[x], sp)})

\* C30: at every step of buildFromListsInplace each subproblem in the FIFO
\* has a square range whose side is a power of k that is at least k, its slice
\* [left, right) is non-empty and holds exactly the input triples whose row
\* and column lie in the range, the slices of the queued subproblems are
\* pairwise disjoint, and the triple list is a permutation of the input; the
\* FIFO drains after finitely many steps.
QueueInvariant ==
    /\ [](build.alg = "inplace" =>
            /\ \A x \in 1 .. Len(build.queue) : SubproblemAsClaimed(build.queue[x])
            /\ \A x \in 1 .. Len(build.queue) : \A y \in 1 .. Len(build.queue) :
                   x # y => \/ build.queue[x].right <= build.queue[y].left
                            \/ build.queue[y].right <= build.queue[x].left
            /\ Len(build.pairs) = Len(build.input)
            /\ \A x \in 1 .. Len(build.input) :
                   Occurrences(build.pairs, build.input[x])
                       = Occurrences(build.input, build.input[x]))
    /\ (build.pc = "run") ~> (build.pc = "done" /\ Len(build.queue) = 0)

\* in a tree of height 3 a counting sort has reordered the list, and the queue
\* holds two subproblems of side k
QueueInvariantWitness ==
    /\ build.alg = "inplace"
    /\ h_ = 3
    /\ build.pairs # build.input
    /\ Len(build.queue) = 2
    /\ build.queue[1].lastRow - build.queue[1].firstRow + 1 = k_
    /\ build.queue[2].right - build.queue[2].left = 2

====
